---- MODULE Spec2Model ----
(***************************************************************************)
(* A model of nokhwa-bindings-windows (src/nokhwa-bindings-windows/src/    *)
(* lib.rs, module wmf): the process-wide Media Foundation lifecycle        *)
(* (INITIALIZED, CAMERA_REFCNT), device enumeration and open, and the      *)
(* capture session (MediaFoundationDevice).                                *)
(*                                                                         *)
(* Spec         one caller, several sessions: the lifecycle and the        *)
(*              streaming flag; every public function is one action.       *)
(* SpecConc     several threads; new() and drop() are split at every load  *)
(*              and store of the two atomics.                              *)
(* SpecRead     one session, raw_bytes() with every answer of the platform.*)
(* SpecPoll     one session, raw_bytes() split at every ReadSample poll;   *)
(*              SpecPollFair adds that the caller's thread keeps running.  *)
(* SpecFormat   one session, compatible_format_list() split at every pass  *)
(*              of its loop; SpecFormatFair adds that a pass whose         *)
(*              platform calls succeed is taken.                           *)
(* SpecNegotiate one session: set_format(), format_refreshed(), format()   *)
(*              and compatible_format_list().                              *)
(* SpecOpen     one session at a time: new() by index and by symbolic     *)
(*              link and query_media_foundation_descriptors(), with every  *)
(*              device list the platform may enumerate.                    *)
(* SpecControl  one session: control() and set_control().                  *)
(* SpecShare    several sessions: start_stream(), stop_stream(),           *)
(*              set_format() and format_refreshed() interleaved.           *)
(*                                                                         *)
(* Platform calls are inputs: each action draws, for the calls its code    *)
(* makes, the first call that fails ("none" when all succeed) and the      *)
(* values the platform hands back.  Spec draws one failure of each kind    *)
(* that differs in its effect on the lifecycle (the ...L input sets); the  *)
(* full input sets are drawn where a claim is about the call itself.       *)
(*                                                                         *)
(* CAMERA_REFCNT is an AtomicUsize.  The model keeps the representative of *)
(* its 64-bit value in (-2^63, 2^63): -1 stands for usize::MAX, so the     *)
(* unsigned test "> 0" is "# 0" and a wrapping "0 - 1" gives -1.           *)
(***************************************************************************)
EXTENDS Integers, Sequences, FiniteSets, TLC

\* ------------------------------------------------------------- bounds
MaxSessions == 2
NumDevices == 2
MaxPolls == 2
MaxLen == 2
MaxRefcnt == 3
MaxNative == 2

Sessions == 1..MaxSessions
Devices == 1..NumDevices

VARIABLES
    INITIALIZED,    \* lib.rs:91  the process-wide "subsystem is up" flag
    CAMERA_REFCNT,  \* lib.rs:92  the process-wide session counter
    plat,           \* the platform: [mf, com, tried]
    sess,           \* the MediaFoundationDevice values, by slot
    last,           \* the last call made and what it returned
    watch,          \* history: the session opened last, while no other opens or drops
    pc,             \* where each thread stands inside a call split in steps
    tmp,            \* SpecConc: the value a thread loaded and has not stored yet;
                    \* SpecPoll: the answers without a sample so far
    loc             \* SpecFormat: the locals of compatible_format_list()

vars == <<INITIALIZED, CAMERA_REFCNT, plat, sess, last, watch, pc, tmp, loc>>

\* ------------------------------------------------------------- helpers
\* A handler is a sequence of steps [name, fn, err]: `name` identifies the
\* step, `fn` is the platform function it calls ("" for a check of a value
\* already returned) and `err` the NokhwaError the handler returns when the
\* step fails.  CallsUpTo: the platform calls made when `fault` is the first
\* step that fails (all of them when fault = "none").
RECURSIVE CallsUpTo(_, _)
CallsUpTo(steps, fault) ==
    IF steps = <<>> THEN <<>>
    ELSE LET h == Head(steps)
             c == IF h.fn # "" THEN <<h.fn>> ELSE <<>>
         IN  IF h.name = fault THEN c ELSE c \o CallsUpTo(Tail(steps), fault)

StepNames(steps) == {steps[k].name : k \in 1..Len(steps)}

ErrorAt(steps, fault) ==
    steps[CHOOSE k \in 1..Len(steps) : steps[k].name = fault].err

RECURSIVE Repeat(_, _)
Repeat(x, n) == IF n = 0 THEN <<>> ELSE <<x>> \o Repeat(x, n - 1)

\* every sequence over Devices without repetition: what one enumeration
\* (MFEnumDeviceSources, null entries dropped) can return
RECURSIVE SeqsNoRep(_)
SeqsNoRep(n) ==
    IF n = 0 THEN {<<>>}
    ELSE LET shorter == SeqsNoRep(n - 1)
         IN  shorter \cup
             {Append(q, d) : q \in {r \in shorter : Len(r) = n - 1},
                             d \in Devices}

Enumerations ==
    {q \in SeqsNoRep(NumDevices) :
        \A i, j \in 1..Len(q) : i # j => q[i] # q[j]}

\* ------------------------------------------------------------- state
\* MediaFoundationDevice, lib.rs:392-397: is_open and device_format are the
\* struct's fields (device_format starts as the default of lib.rs:478);
\* `selected`, media_type and active are the platform side of source_reader:
\* whether its first video stream is selected, the media type last given to
\* SetCurrentMediaType and the one GetCurrentMediaType reports.
\* (device_specifier is written once, by new(), and is kept in the result of
\* new().)
\* lib.rs:478  MFCameraFormat::default(), the default of nokhwa_core's
\* CameraFormat
DefaultFormat ==
    [width |-> 640, height |-> 480, format |-> "MJPEG", frame_rate |-> 30]

\* A u64 attribute is kept as its two 32-bit halves: x >> 32 is hi, x as u32
\* is lo.
U64(hi, lo) == [hi |-> hi, lo |-> lo]

\* The media type a new source reader reports as current
InitialType ==
    [subtype |-> "MJPEG", frame_size |-> U64(1280, 720), rate |-> U64(30, 1)]

\* The device's controls, the platform side of source_reader's media
\* source: one cell [value, flag] by interface and id, for the controls
\* the callers of the model ask for
Cell(interface, id) == <<interface, id>>
Cells ==
    {Cell("IAMCameraControl", "CameraControl_Exposure"),
     Cell("IAMVideoProcAmp", "VideoProcAmp_ColorEnable")}
Flags == {"CameraControl_Flags_Auto", "CameraControl_Flags_Manual"}
InitialControls ==
    [c \in Cells |-> [value |-> 0, flag |-> "CameraControl_Flags_Auto"]]

\* No media type has been given to SetCurrentMediaType
NoMediaType ==
    [major |-> "none", subtype |-> "none", frame_size |-> U64(0, 0),
     rate |-> U64(0, 0), rate_min |-> U64(0, 0), rate_max |-> U64(0, 0)]
NoSession ==
    [live |-> FALSE, is_open |-> FALSE, selected |-> FALSE,
     device_format |-> DefaultFormat, media_type |-> NoMediaType,
     active |-> InitialType, controls |-> InitialControls]

LiveSet == {s \in Sessions : sess[s].live}

\* The identifier an OpenDeviceError carries: index.to_string() of a
\* CameraIndex::Index(v) or the string of a CameraIndex::String(v)
Ident(kind, v) == [kind |-> kind, v |-> v]
NoIdent == Ident("none", 0)

\* The record of a call: the function, the session slot (0 for none), the
\* Result it returned, the platform calls it made in order, and the values
\* in and out that the claims speak of (for new(): asked is its argument,
\* ident the identifier in the OpenDeviceError it returned; for
\* query_media_foundation_descriptors(): handles is the device list the
\* platform enumerated, infos the descriptors returned; property is the
\* property a GetPropertyError or a SetPropertyError names; for control()
\* and set_control(): control and value are the arguments, mode the mode
\* control() reported, set the arguments of the native Set).
NoCall ==
    [op |-> "none", s |-> 0, res |-> "Ok", fault |-> "none", calls |-> <<>>,
     val |-> 0, aux |-> 0, ptr_null |-> FALSE, asked |-> NoIdent,
     ident |-> NoIdent, property |-> "", handles |-> <<>>, infos |-> <<>>,
     mode |-> "", control |-> [name |-> "", o |-> ""],
     value |-> [tag |-> "", hi |-> 0, lo |-> 0],
     set |-> [interface |-> "", id |-> "", value |-> 0, flag |-> ""]]

NoWatch == [s |-> 0, cnt0 |-> 0, failed |-> FALSE]

\* compatible_format_list(), lib.rs:542-543: index and list are its locals
\* index and camera_format_list; natives is the native type list of the
\* device it runs on and fetched the indices it has passed to
\* GetNativeMediaType.
NoLocals == [natives |-> <<>>, index |-> 0, list |-> <<>>, fetched |-> <<>>]

Init ==
    /\ INITIALIZED = FALSE
    /\ CAMERA_REFCNT = 0
    /\ plat = [mf |-> 0, com |-> 0, tried |-> FALSE]
    /\ sess = [s \in Sessions |-> NoSession]
    /\ last = NoCall
    /\ watch = NoWatch
    /\ pc = [t \in Sessions |-> "idle"]
    /\ tmp = [t \in Sessions |-> 0]
    /\ loc = [s \in Sessions |-> NoLocals]

\* ------------------------------------------------------------- lifecycle
\* The lifecycle state a handler threads through its calls: the flag and the
\* platform's own state (mf: successful MFStartup minus successful
\* MFShutdown, com: CoInitializeEx minus CoUninitialize, tried: MFStartup
\* was called since the last successful MFShutdown).
Life == [init |-> INITIALIZED, plat |-> plat]

\* The outcomes the platform may give initialize_mf.
InitFaults(L) ==
    IF L.init THEN {"none"} ELSE {"none", "CoInitializeEx", "MFStartup"}

\* initialize_mf without the check of lib.rs:163: it starts the platform
\* whatever the flag
initialize_mf_unguarded(L, fault) ==
    IF fault = "CoInitializeEx"
    THEN [res |-> "InitializeError", L |-> L, calls |-> <<"CoInitializeEx">>]
    ELSE IF fault = "MFStartup"
    THEN [res |-> "InitializeError", L |-> [L EXCEPT !.plat.tried = TRUE],
          calls |-> <<"CoInitializeEx", "MFStartup", "CoUninitialize">>]
    ELSE [res |-> "Ok",
          L |-> [init |-> TRUE,
                 plat |-> [mf |-> L.plat.mf + 1, com |-> L.plat.com + 1,
                           tried |-> TRUE]],
          calls |-> <<"CoInitializeEx", "MFStartup">>]

\* initialize_mf with the store of lib.rs:183 moved before MFStartup: the
\* flag is true although MFStartup failed
initialize_mf_flag_early(L, fault) ==
    IF L.init THEN [res |-> "Ok", L |-> L, calls |-> <<>>]
    ELSE IF fault = "CoInitializeEx"
    THEN [res |-> "InitializeError", L |-> L, calls |-> <<"CoInitializeEx">>]
    ELSE IF fault = "MFStartup"
    THEN [res |-> "InitializeError",
          L |-> [init |-> TRUE, plat |-> [L.plat EXCEPT !.tried = TRUE]],
          calls |-> <<"CoInitializeEx", "MFStartup", "CoUninitialize">>]
    ELSE [res |-> "Ok",
          L |-> [init |-> TRUE,
                 plat |-> [mf |-> L.plat.mf + 1, com |-> L.plat.com + 1,
                           tried |-> TRUE]],
          calls |-> <<"CoInitializeEx", "MFStartup">>]

\* lib.rs:162-186
initialize_mf(L, fault) ==
    IF L.init THEN [res |-> "Ok", L |-> L, calls |-> <<>>]
    ELSE IF fault = "CoInitializeEx"
    THEN [res |-> "InitializeError", L |-> L, calls |-> <<"CoInitializeEx">>]
    ELSE IF fault = "MFStartup"
    THEN [res |-> "InitializeError",
          L |-> [L EXCEPT !.plat.tried = TRUE],
          calls |-> <<"CoInitializeEx", "MFStartup", "CoUninitialize">>]
    ELSE [res |-> "Ok",
          L |-> [init |-> TRUE,
                 plat |-> [mf |-> L.plat.mf + 1, com |-> L.plat.com + 1,
                           tried |-> TRUE]],
          calls |-> <<"CoInitializeEx", "MFStartup">>]

\* de_initialize_mf without the check of lib.rs:189: it shuts the platform
\* down whatever the flag
de_initialize_mf_unguarded(L, fault) ==
    IF fault = "MFShutdown"
    THEN [res |-> "ShutdownError", L |-> L, calls |-> <<"MFShutdown">>]
    ELSE [res |-> "Ok",
          L |-> [init |-> FALSE,
                 plat |-> [mf |-> L.plat.mf - 1, com |-> L.plat.com - 1,
                           tried |-> FALSE]],
          calls |-> <<"MFShutdown", "CoUninitialize">>]

\* lib.rs:188-202
de_initialize_mf(L, fault) ==
    IF ~L.init THEN [res |-> "Ok", L |-> L, calls |-> <<>>]
    ELSE IF fault = "MFShutdown"
    THEN [res |-> "ShutdownError", L |-> L, calls |-> <<"MFShutdown">>]
    ELSE [res |-> "Ok",
          L |-> [init |-> FALSE,
                 plat |-> [mf |-> L.plat.mf - 1, com |-> L.plat.com - 1,
                           tried |-> FALSE]],
          calls |-> <<"MFShutdown", "CoUninitialize">>]

\* The outcomes the platform may give de_initialize_mf.
ShutdownFaults(L) == IF L.init THEN {"none", "MFShutdown"} ELSE {"none"}

\* the caller calls initialize_mf()
Initialize ==
    \E fault \in InitFaults(Life) :
        LET r == initialize_mf(Life, fault) IN
        /\ INITIALIZED' = r.L.init
        /\ plat' = r.L.plat
        /\ last' = [NoCall EXCEPT !.op = "initialize_mf", !.res = r.res,
                                  !.fault = fault, !.calls = r.calls]
        /\ UNCHANGED <<CAMERA_REFCNT, sess, watch, pc, tmp, loc>>

\* the caller calls de_initialize_mf()
DeInitialize ==
    \E fault \in ShutdownFaults(Life) :
        LET r == de_initialize_mf(Life, fault) IN
        /\ INITIALIZED' = r.L.init
        /\ plat' = r.L.plat
        /\ last' = [NoCall EXCEPT !.op = "de_initialize_mf", !.res = r.res,
                                  !.fault = fault,
                                  !.calls = r.calls]
        /\ UNCHANGED <<CAMERA_REFCNT, sess, watch, pc, tmp, loc>>

\* ------------------------------------------------------------- enumeration
\* lib.rs:207-251: the steps of query_activate_pointers after initialize_mf
QapSteps ==
    << [name |-> "MFCreateAttributes", fn |-> "MFCreateAttributes", err |-> "GetPropertyError"],
       [name |-> "AttributesNone", fn |-> "", err |-> "SetPropertyError"],
       [name |-> "SetGUID", fn |-> "SetGUID", err |-> "SetPropertyError"],
       [name |-> "MFEnumDeviceSources", fn |-> "MFEnumDeviceSources", err |-> "StructureError"] >>

QapFaults(L) == InitFaults(L) \cup StepNames(QapSteps)

\* query_activate_pointers without the initialize_mf()? of lib.rs:205
query_activate_pointers_no_init(L, fault, enum) ==
    IF fault \in StepNames(QapSteps)
    THEN [res |-> ErrorAt(QapSteps, fault), L |-> L,
          calls |-> CallsUpTo(QapSteps, fault), list |-> <<>>, property |-> ""]
    ELSE [res |-> "Ok", L |-> L, calls |-> CallsUpTo(QapSteps, "none"),
          list |-> enum, property |-> ""]

\* lib.rs:209-238: the property the error of a failing step names
QapProperty(fault) ==
    IF fault = "MFCreateAttributes" THEN "IMFAttributes"
    ELSE IF fault \in {"AttributesNone", "SetGUID"}
    THEN "GUID MF_DEVSOURCE_ATTRIBUTE_SOURCE_TYPE"
    ELSE ""

\* lib.rs:204-264.  `enum` is the device list MFEnumDeviceSources returns.
query_activate_pointers(L, fault, enum) ==
    LET i == initialize_mf(L, IF fault \in InitFaults(L) THEN fault ELSE "none") IN
    IF i.res # "Ok"
    THEN [res |-> i.res, L |-> i.L, calls |-> i.calls, list |-> <<>>,
          property |-> ""]
    ELSE IF fault \in StepNames(QapSteps)
    THEN [res |-> ErrorAt(QapSteps, fault), L |-> i.L,
          calls |-> i.calls \o CallsUpTo(QapSteps, fault), list |-> <<>>,
          property |-> QapProperty(fault)]
    ELSE [res |-> "Ok", L |-> i.L,
          calls |-> i.calls \o CallsUpTo(QapSteps, "none"), list |-> enum,
          property |-> ""]

\* lib.rs:275-329: the steps of activate_to_descriptors
DescriptorSteps ==
    << [name |-> "FRIENDLY_NAME", fn |-> "GetAllocatedString", err |-> "GetPropertyError"],
       [name |-> "SYMBOLIC_LINK", fn |-> "GetAllocatedString", err |-> "GetPropertyError"],
       [name |-> "FRIENDLY_NAME_null", fn |-> "", err |-> "GetPropertyError"],
       [name |-> "SYMBOLIC_LINK_null", fn |-> "", err |-> "GetPropertyError"],
       [name |-> "Name_to_string", fn |-> "", err |-> "StructureError"],
       [name |-> "Symlink_to_string", fn |-> "", err |-> "StructureError"] >>

\* lib.rs:281-304: the property the error of a failing step names
DescriptorProperty(fault) ==
    IF fault \in {"FRIENDLY_NAME", "FRIENDLY_NAME_null"}
    THEN "MF_DEVSOURCE_ATTRIBUTE_FRIENDLY_NAME"
    ELSE IF fault \in {"SYMBOLIC_LINK", "SYMBOLIC_LINK_null"}
    THEN "MF_DEVSOURCE_ATTRIBUTE_SOURCE_TYPE_VIDCAP_SYMBOLIC_LINK"
    ELSE ""

\* lib.rs:266-337.  Device d has friendly name d and symbolic link d.
activate_to_descriptors(index, d, fault) ==
    IF fault \in StepNames(DescriptorSteps)
    THEN [res |-> ErrorAt(DescriptorSteps, fault),
          calls |-> CallsUpTo(DescriptorSteps, fault),
          info |-> [index |-> 0, human_name |-> 0, misc |-> 0],
          property |-> DescriptorProperty(fault)]
    ELSE [res |-> "Ok", calls |-> CallsUpTo(DescriptorSteps, "none"),
          info |-> [index |-> index, human_name |-> d, misc |-> d],
          property |-> ""]

RECURSIVE DescribeFrom(_, _, _, _)

\* the loop with positions counted from 1 (lib.rs:344: index as u32 of
\* enumerate() counts from 0)
DescribeFrom_one_based(list, k, fk, dfault) ==
    IF k > Len(list)
    THEN [res |-> "Ok", calls |-> <<>>, infos |-> <<>>, property |-> ""]
    ELSE LET a == activate_to_descriptors(k, list[k],
                                          IF k = fk THEN dfault ELSE "none")
             rest == DescribeFrom(list, k + 1, fk, dfault)
         IN  IF a.res # "Ok"
             THEN [res |-> a.res, calls |-> a.calls, infos |-> <<>>,
                   property |-> a.property]
             ELSE [rest EXCEPT !.calls = a.calls \o @,
                               !.infos = IF rest.res = "Ok" THEN <<a.info>> \o @
                                         ELSE <<>>]

\* the loop without the `?` of lib.rs:346: a handle whose descriptor is not
\* read is left out
DescribeFrom_skips_failed(list, k, fk, dfault) ==
    IF k > Len(list)
    THEN [res |-> "Ok", calls |-> <<>>, infos |-> <<>>, property |-> ""]
    ELSE LET a == activate_to_descriptors(k - 1, list[k],
                                          IF k = fk THEN dfault ELSE "none")
             rest == DescribeFrom(list, k + 1, fk, dfault)
         IN  [rest EXCEPT !.calls = a.calls \o @,
                          !.infos = IF a.res = "Ok" THEN <<a.info>> \o @ ELSE @]

\* lib.rs:342-347: the loop of query_media_foundation_descriptors over the
\* handles from position k on; the handle at position fk fails with dfault.
DescribeFrom(list, k, fk, dfault) ==
    IF k > Len(list)
    THEN [res |-> "Ok", calls |-> <<>>, infos |-> <<>>, property |-> ""]
    ELSE LET a == activate_to_descriptors(k - 1, list[k],
                                          IF k = fk THEN dfault ELSE "none")
         IN  IF a.res # "Ok"
             THEN [res |-> a.res, calls |-> a.calls, infos |-> <<>>,
                   property |-> a.property]
             ELSE LET rest == DescribeFrom(list, k + 1, fk, dfault)
                  IN  [res |-> rest.res, calls |-> a.calls \o rest.calls,
                       infos |-> IF rest.res = "Ok" THEN <<a.info>> \o rest.infos
                                 ELSE <<>>,
                       property |-> rest.property]

\* lib.rs:339-349
query_media_foundation_descriptors(L, fault, enum, fk, dfault) ==
    LET q == query_activate_pointers(L, fault, enum) IN
    IF q.res # "Ok"
    THEN [res |-> q.res, L |-> q.L, calls |-> q.calls, infos |-> <<>>,
          handles |-> q.list, property |-> q.property]
    ELSE LET d == DescribeFrom(q.list, 1, fk, dfault)
         IN  [res |-> d.res, L |-> q.L, calls |-> q.calls \o d.calls,
              infos |-> d.infos, handles |-> q.list, property |-> d.property]

\* What the platform may answer to one query_media_foundation_descriptors():
\* the first failing step of query_activate_pointers, the device list, and
\* the handle (fk, 0 for none) whose descriptor read fails with dfault.
ListInputs(L) ==
    {[fault |-> f, enum |-> <<>>, fk |-> 0, dfault |-> "none"] :
        f \in QapFaults(L) \ {"none"}}
    \cup {[fault |-> "none", enum |-> e, fk |-> 0, dfault |-> "none"] :
        e \in Enumerations}
    \cup {in \in [fault : {"none"}, enum : Enumerations, fk : 1..NumDevices,
                  dfault : StepNames(DescriptorSteps)] : in.fk <= Len(in.enum)}

\* The devices in their order of attachment.
StableEnum == [k \in 1..NumDevices |-> k]

\* ListInputs, one failure of each kind and the stable device list.
ListInputsL(L) ==
    {[fault |-> f, enum |-> <<>>, fk |-> 0, dfault |-> "none"] :
        f \in (InitFaults(L) \cup {"MFEnumDeviceSources"}) \ {"none"}}
    \cup {[fault |-> "none", enum |-> StableEnum, fk |-> 0, dfault |-> "none"],
          [fault |-> "none", enum |-> StableEnum, fk |-> 1, dfault |-> "SYMBOLIC_LINK"]}

ListFault(in) ==
    IF in.fault # "none" THEN in.fault ELSE in.dfault

\* query_media_foundation_descriptors() with the platform answering `in`
ListDevicesWith(in) ==
    LET r == query_media_foundation_descriptors(Life, in.fault, in.enum,
                                                in.fk, in.dfault) IN
    /\ INITIALIZED' = r.L.init
    /\ plat' = r.L.plat
    /\ last' = [NoCall EXCEPT !.op = "query_media_foundation_descriptors",
                              !.res = r.res, !.fault = ListFault(in),
                              !.calls = r.calls, !.val = Len(r.infos),
                              !.property = r.property, !.handles = r.handles,
                              !.infos = r.infos]
    /\ UNCHANGED <<CAMERA_REFCNT, sess, watch, pc, tmp, loc>>

\* the caller calls query_media_foundation_descriptors()
ListDevices == \E in \in ListInputsL(Life) : ListDevicesWith(in)

\* ------------------------------------------------------------- open
\* lib.rs:406-470: the steps of new(Index(i)) once the handle is found
NewSteps ==
    << [name |-> "ActivateObject", fn |-> "ActivateObject", err |-> "OpenDeviceError"] >>
    \o DescriptorSteps \o
    << [name |-> "MFCreateAttributes_reader", fn |-> "MFCreateAttributes", err |-> "StructureError"],
       [name |-> "AttributesNone_reader", fn |-> "", err |-> "StructureError"],
       [name |-> "SetUINT32", fn |-> "SetUINT32", err |-> "SetPropertyError"],
       [name |-> "MFCreateSourceReaderFromMediaSource",
        fn |-> "MFCreateSourceReaderFromMediaSource", err |-> "StructureError"] >>

\* lib.rs:473  CAMERA_REFCNT.store(CAMERA_REFCNT.load() + 1)
refcnt_inc(loaded) == loaded + 1

NoInfo == [index |-> 0, human_name |-> 0, misc |-> 0]

\* lib.rs:402-481, new(CameraIndex::Index(i)).  qfault and enum are the
\* platform's answers to query_activate_pointers, fault the first failing
\* step after it.
new_index(L, refcnt, i, qfault, enum, fault) ==
    LET q == query_activate_pointers(L, qfault, enum) IN
    IF q.res # "Ok"
    THEN [res |-> q.res, fault |-> qfault, L |-> q.L, refcnt |-> refcnt,
          calls |-> q.calls, info |-> NoInfo, ident |-> NoIdent]
    ELSE IF i + 1 > Len(q.list)
    THEN [res |-> "OpenDeviceError", fault |-> "No device", L |-> q.L,
          refcnt |-> refcnt, calls |-> q.calls, info |-> NoInfo,
          ident |-> Ident("Index", i)]
    ELSE IF fault \in StepNames(NewSteps)
    THEN [res |-> ErrorAt(NewSteps, fault), fault |-> fault, L |-> q.L,
          refcnt |-> refcnt, calls |-> q.calls \o CallsUpTo(NewSteps, fault),
          info |-> NoInfo,
          ident |-> IF fault = "ActivateObject" THEN Ident("Index", i)
                    ELSE NoIdent]
    ELSE [res |-> "Ok", fault |-> "none", L |-> q.L, refcnt |-> refcnt_inc(refcnt),
          calls |-> q.calls \o CallsUpTo(NewSteps, "none"),
          info |-> activate_to_descriptors(i, q.list[i + 1], "none").info,
          ident |-> NoIdent]

\* lib.rs:484-491: the index of the first descriptor whose misc() is s, -1
\* for None
IdEq(infos, s) ==
    IF \E k \in 1..Len(infos) : infos[k].misc = s
    THEN infos[CHOOSE k \in 1..Len(infos) :
                  /\ infos[k].misc = s
                  /\ \A j \in 1..(k - 1) : infos[j].misc # s].index
    ELSE -1

\* new(CameraIndex::String(s)) as it would be if the count were raised once
\* by the outer call and once more by the nested new(Index(index))
new_string_counts_twice(L, refcnt, s, in1, in2) ==
    LET d == query_media_foundation_descriptors(L, in1.fault, in1.enum,
                                                in1.fk, in1.dfault) IN
    IF d.res # "Ok"
    THEN [res |-> d.res, fault |-> ListFault(in1), L |-> d.L, refcnt |-> refcnt,
          calls |-> d.calls, info |-> NoInfo, ident |-> NoIdent]
    ELSE IF IdEq(d.infos, s) = -1
    THEN [res |-> "OpenDeviceError", fault |-> "Not Found", L |-> d.L,
          refcnt |-> refcnt, calls |-> d.calls, info |-> NoInfo,
          ident |-> Ident("String", s)]
    ELSE LET n == new_index(d.L, refcnt_inc(refcnt), IdEq(d.infos, s),
                            in2.qfault, in2.enum, in2.fault)
         IN  [n EXCEPT !.calls = d.calls \o n.calls]

\* lib.rs:482-499, new(CameraIndex::String(s)).  in1 answers the
\* enumeration of query_media_foundation_descriptors, in2 the calls of the
\* nested new(Index(index)).
new_string(L, refcnt, s, in1, in2) ==
    LET d == query_media_foundation_descriptors(L, in1.fault, in1.enum,
                                                in1.fk, in1.dfault) IN
    IF d.res # "Ok"
    THEN [res |-> d.res, fault |-> ListFault(in1), L |-> d.L, refcnt |-> refcnt,
          calls |-> d.calls, info |-> NoInfo, ident |-> NoIdent]
    ELSE IF IdEq(d.infos, s) = -1
    THEN [res |-> "OpenDeviceError", fault |-> "Not Found", L |-> d.L,
          refcnt |-> refcnt, calls |-> d.calls, info |-> NoInfo,
          ident |-> Ident("String", s)]
    ELSE LET n == new_index(d.L, refcnt, IdEq(d.infos, s), in2.qfault,
                            in2.enum, in2.fault)
         IN  [n EXCEPT !.calls = d.calls \o n.calls]

\* What the platform may answer to one new(Index(i))
NewInputs(L) ==
    {[qfault |-> f, enum |-> <<>>, fault |-> "none"] : f \in QapFaults(L) \ {"none"}}
    \cup [qfault : {"none"}, enum : Enumerations,
          fault : {"none"} \cup StepNames(NewSteps)]

\* NewInputs, one failure of each kind and the stable device list.
NewInputsL(L) ==
    {[qfault |-> f, enum |-> <<>>, fault |-> "none"] :
        f \in (InitFaults(L) \cup {"MFEnumDeviceSources"}) \ {"none"}}
    \cup [qfault : {"none"}, enum : {StableEnum},
          fault : {"none", "ActivateObject", "MFCreateSourceReaderFromMediaSource"}]

NoIn2 == [qfault |-> "none", enum |-> <<>>, fault |-> "none"]

\* The slot a new session takes: the lowest free one.
FreeSlot == CHOOSE s \in Sessions \ LiveSet : \A o \in Sessions \ LiveSet : s <= o

\* The state after new() returned r.  `sel` is whether the platform's reader
\* starts with its first video stream selected; lib.rs:475-480 builds the
\* session with is_open false.
Opened(r, sel, kind, requested) ==
    /\ INITIALIZED' = r.L.init
    /\ plat' = r.L.plat
    /\ CAMERA_REFCNT' = r.refcnt
    /\ IF r.res = "Ok"
       THEN /\ sess' = [sess EXCEPT ![FreeSlot] =
                            [NoSession EXCEPT !.live = TRUE, !.selected = sel]]
            /\ watch' = [s |-> FreeSlot, cnt0 |-> CAMERA_REFCNT, failed |-> FALSE]
            /\ last' = [NoCall EXCEPT !.op = "new", !.s = FreeSlot,
                                      !.calls = r.calls, !.val = r.info.misc,
                                      !.aux = requested,
                                      !.asked = Ident(kind, requested)]
       ELSE /\ sess' = sess
            /\ watch' = watch
            /\ last' = [NoCall EXCEPT !.op = "new", !.res = r.res,
                                      !.fault = r.fault, !.calls = r.calls,
                                      !.aux = requested, !.ident = r.ident,
                                      !.asked = Ident(kind, requested)]
    /\ UNCHANGED <<pc, tmp, loc>>

Selections(r) == IF r.res = "Ok" THEN BOOLEAN ELSE {FALSE}

\* the caller calls MediaFoundationDevice::new(CameraIndex::Index(i))
OpenIndex ==
    /\ LiveSet # Sessions
    /\ \E i \in 0..NumDevices, in \in NewInputsL(Life) :
          LET r == new_index(Life, CAMERA_REFCNT, i, in.qfault, in.enum, in.fault)
          IN  \E sel \in Selections(r) : Opened(r, sel, "Index", i)

\* the caller calls MediaFoundationDevice::new(CameraIndex::String(s))
OpenString ==
    /\ LiveSet # Sessions
    /\ \E s \in 1..(NumDevices + 1), in1 \in ListInputsL(Life) :
          LET d == query_media_foundation_descriptors(Life, in1.fault, in1.enum,
                                                      in1.fk, in1.dfault)
          IN  \E in2 \in IF d.res = "Ok" /\ IdEq(d.infos, s) # -1
                         THEN NewInputsL(d.L) ELSE {NoIn2} :
                 LET r == new_string(Life, CAMERA_REFCNT, s, in1, in2)
                 IN  \E sel \in Selections(r) : Opened(r, sel, "String", s)

\* ------------------------------------------------------------- streaming
\* A call on session s that returned `res`: the history notes a failure.
Noted(s, res) ==
    watch' = IF watch.s = s /\ res # "Ok" THEN [watch EXCEPT !.failed = TRUE]
             ELSE watch

\* start_stream with the store of lib.rs:1111 before the `?` of
\* SetStreamSelection: the flag is set although the call failed
start_stream_sets_on_error(self, fault) ==
    IF fault = "SetStreamSelection"
    THEN [res |-> "OpenStreamError", self |-> [self EXCEPT !.is_open = TRUE]]
    ELSE [res |-> "Ok", self |-> [self EXCEPT !.is_open = TRUE, !.selected = TRUE]]

\* lib.rs:1103-1113.  Returns the session after the call.
start_stream(self, fault) ==
    IF fault = "SetStreamSelection"
    THEN [res |-> "OpenStreamError", self |-> self]
    ELSE [res |-> "Ok", self |-> [self EXCEPT !.is_open = TRUE, !.selected = TRUE]]

\* stop_stream that also deselects the reader's stream
stop_stream_deselects(self) == [self EXCEPT !.is_open = FALSE, !.selected = FALSE]

\* lib.rs:1198-1200
stop_stream(self) == [self EXCEPT !.is_open = FALSE]

StartStream(s) ==
    /\ sess[s].live
    /\ \E fault \in {"none", "SetStreamSelection"} :
          LET r == start_stream(sess[s], fault) IN
          /\ sess' = [sess EXCEPT ![s] = r.self]
          /\ last' = [NoCall EXCEPT !.op = "start_stream", !.s = s, !.res = r.res,
                                    !.fault = fault,
                                    !.calls = <<"SetStreamSelection">>]
          /\ Noted(s, r.res)
    /\ UNCHANGED <<INITIALIZED, CAMERA_REFCNT, plat, pc, tmp, loc>>

StopStream(s) ==
    /\ sess[s].live
    /\ sess' = [sess EXCEPT ![s] = stop_stream(sess[s])]
    /\ last' = [NoCall EXCEPT !.op = "stop_stream", !.s = s]
    /\ UNCHANGED <<INITIALIZED, CAMERA_REFCNT, plat, watch, pc, tmp, loc>>

\* lib.rs:1121-1164: the steps of raw_bytes that call the platform
ReadSteps ==
    << [name |-> "ReadSample", fn |-> "ReadSample", err |-> "ReadFrameError"],
       [name |-> "ConvertToContiguousBuffer", fn |-> "ConvertToContiguousBuffer",
        err |-> "ReadFrameError"],
       [name |-> "Lock", fn |-> "Lock", err |-> "ReadFrameError"] >>

\* raw_bytes without the check of lib.rs:1172-1174
raw_bytes_no_len_check(in) ==
    LET polled == Repeat("ReadSample", in.polls) IN
    IF in.fault # "none"
    THEN [res |-> ErrorAt(ReadSteps, in.fault), fault |-> in.fault, val |-> 0,
          calls |-> polled \o CallsUpTo(ReadSteps, in.fault)]
    ELSE IF in.ptr_null
    THEN [res |-> "ReadFrameError", fault |-> "Buffer Pointer Null", val |-> 0,
          calls |-> polled \o CallsUpTo(ReadSteps, "none")]
    ELSE [res |-> "Ok", fault |-> "none", val |-> in.len,
          calls |-> polled \o CallsUpTo(ReadSteps, "none") \o <<"Lock">>]

\* lib.rs:1115-1196.  in.polls: the ReadSample calls that succeed with no
\* sample before the one that decides; in.fault: the first failing call;
\* in.ptr_null and in.len: the start pointer and the valid length the first
\* Lock hands back; in.len2: the valid length the Lock of lib.rs:1185-1190
\* writes over it.  val is the length of the returned bytes.
raw_bytes(in) ==
    LET polled == Repeat("ReadSample", in.polls) IN
    IF in.fault # "none"
    THEN [res |-> ErrorAt(ReadSteps, in.fault), fault |-> in.fault, val |-> 0,
          calls |-> polled \o CallsUpTo(ReadSteps, in.fault)]
    ELSE IF in.ptr_null
    THEN [res |-> "ReadFrameError", fault |-> "Buffer Pointer Null", val |-> 0,
          calls |-> polled \o CallsUpTo(ReadSteps, "none")]
    ELSE IF in.len = 0
    THEN [res |-> "ReadFrameError", fault |-> "Buffer Size is 0", val |-> 0,
          calls |-> polled \o CallsUpTo(ReadSteps, "none")]
    ELSE LET data_slice == in.len
             buffer_valid_length == in.len2
         IN  [res |-> "Ok", fault |-> "none", val |-> data_slice,
              calls |-> polled \o CallsUpTo(ReadSteps, "none") \o <<"Lock">>]

\* What the platform may answer to one raw_bytes()
ReadInputs ==
    [polls : 0..MaxPolls, fault : StepNames(ReadSteps), ptr_null : {FALSE},
     len : {0}, len2 : {0}]
    \cup [polls : 0..MaxPolls, fault : {"none"}, ptr_null : {TRUE},
          len : 0..MaxLen, len2 : {0}]
    \cup [polls : 0..MaxPolls, fault : {"none"}, ptr_null : {FALSE},
          len : 0..MaxLen, len2 : 0..MaxLen]

\* ReadInputs, one failure and one frame.
ReadInputsL ==
    {[polls |-> 0, fault |-> "ReadSample", ptr_null |-> FALSE, len |-> 0, len2 |-> 0],
     [polls |-> 0, fault |-> "none", ptr_null |-> FALSE, len |-> MaxLen, len2 |-> MaxLen]}

\* raw_bytes() on session s with the platform answering `in`.  A reader
\* whose first video stream is not selected has no sample to give: its first
\* ReadSample fails.
ReadFrameWith(s, in) ==
    /\ sess[s].live
    /\ sess[s].selected \/ (in.fault = "ReadSample" /\ in.polls = 0)
    /\ LET r == raw_bytes(in) IN
       /\ last' = [NoCall EXCEPT !.op = "raw_bytes", !.s = s, !.res = r.res,
                                 !.fault = r.fault, !.calls = r.calls,
                                 !.val = r.val, !.aux = in.len,
                                 !.ptr_null = in.ptr_null]
       /\ Noted(s, r.res)
    /\ UNCHANGED <<INITIALIZED, CAMERA_REFCNT, plat, sess, pc, tmp, loc>>

ReadFrame(s) == \E in \in ReadInputsL : ReadFrameWith(s, in)

\* ------------------------------------------------------------- drop
\* a drop that stores back what it loaded
refcnt_dec_skip(loaded) == loaded

\* lib.rs:1215  CAMERA_REFCNT.store(CAMERA_REFCNT.load() - 1)
refcnt_dec(loaded) == loaded - 1

\* drop without the check of lib.rs:1217: it calls de_initialize_mf
\* whatever the count
drop_always_shutdown(L, refcnt, sdfault) ==
    LET c == IF refcnt # 0 THEN refcnt_dec(refcnt) ELSE refcnt
        d == de_initialize_mf(L, sdfault)
    IN  [L |-> d.L, refcnt |-> c, calls |-> <<"Flush">> \o d.calls]

\* lib.rs:1204-1222, run by one caller: both loads of lib.rs:1214-1215 see
\* the same value.  Flush's result is dropped (lib.rs:1207-1211) and so is
\* de_initialize_mf's (lib.rs:1219).
drop(L, refcnt, sdfault) ==
    LET c == IF refcnt # 0 THEN refcnt_dec(refcnt) ELSE refcnt
        d == IF c = 0 THEN de_initialize_mf(L, sdfault)
             ELSE [res |-> "Ok", L |-> L, calls |-> <<>>]
    IN  [L |-> d.L, refcnt |-> c, calls |-> <<"Flush">> \o d.calls]

Drop(s) ==
    /\ sess[s].live
    /\ \E flush \in {"none", "Flush"}, sdfault \in ShutdownFaults(Life) :
          LET r == drop(Life, CAMERA_REFCNT, sdfault) IN
          /\ INITIALIZED' = r.L.init
          /\ plat' = r.L.plat
          /\ CAMERA_REFCNT' = r.refcnt
          /\ last' = [NoCall EXCEPT !.op = "drop", !.s = s, !.fault = flush,
                                    !.calls = r.calls,
                                    !.val = IF watch.s = s /\ watch.failed
                                            THEN 1 ELSE 0,
                                    !.aux = IF watch.s = s THEN watch.cnt0 ELSE -1]
    /\ sess' = [sess EXCEPT ![s] = NoSession]
    /\ watch' = NoWatch
    /\ UNCHANGED <<pc, tmp, loc>>

\* ------------------------------------------------------------- Spec
Next ==
    \/ Initialize
    \/ DeInitialize
    \/ ListDevices
    \/ OpenIndex
    \/ OpenString
    \/ \E s \in Sessions : StartStream(s)
    \/ \E s \in Sessions : StopStream(s)
    \/ \E s \in Sessions : ReadFrame(s)
    \/ \E s \in Sessions : Drop(s)

Spec == Init /\ [][Next]_vars


\* ------------------------------------------------------------- SpecRead
\* One session, and raw_bytes() with every answer the platform may give.
OpenOne ==
    /\ LiveSet = {}
    /\ OpenIndex

ReadFrameFull(s) == \E in \in ReadInputs : ReadFrameWith(s, in)

NextRead ==
    \/ OpenOne
    \/ \E s \in Sessions : StartStream(s)
    \/ \E s \in Sessions : StopStream(s)
    \/ \E s \in Sessions : ReadFrameFull(s)
    \/ \E s \in Sessions : Drop(s)

SpecRead == Init /\ [][NextRead]_vars


\* ------------------------------------------------------------- SpecConc
\* Thread t opens and drops the session of slot t.  Each action is one step
\* of new(CameraIndex::Index(i)) or of drop(): a load or a store of an
\* atomic, or the platform calls between two of them.  A session is live
\* from the return of new() to the return of drop().
Threads == Sessions

Idle(t) == pc[t] = "idle"

Quiescent == \A t \in Threads : pc[t] \in {"idle", "panicked"}

Goto(t, label) == pc' = [pc EXCEPT ![t] = label]

ConcFrame == UNCHANGED <<last, watch, loc>>

\* new() is called: query_activate_pointers() calls initialize_mf() (lib.rs:205)
NewCall(t) ==
    /\ Idle(t) /\ ~sess[t].live
    /\ Goto(t, "n_init")
    /\ UNCHANGED <<INITIALIZED, CAMERA_REFCNT, plat, sess, tmp>> /\ ConcFrame

\* lib.rs:163  INITIALIZED.load()
NewLoadInitialized(t) ==
    /\ pc[t] = "n_init"
    /\ Goto(t, IF INITIALIZED THEN "n_open" ELSE "n_startup")
    /\ UNCHANGED <<INITIALIZED, CAMERA_REFCNT, plat, sess, tmp>> /\ ConcFrame

\* lib.rs:164-182: CoInitializeEx and MFStartup, as initialize_mf makes them
\* with the flag read as false; a failure returns from new()
NewStartup(t) ==
    /\ pc[t] = "n_startup"
    /\ plat.mf < MaxRefcnt
    /\ \E fault \in {"none", "CoInitializeEx", "MFStartup"} :
          LET r == initialize_mf([init |-> FALSE, plat |-> plat], fault) IN
          /\ plat' = r.L.plat
          /\ Goto(t, IF r.res = "Ok" THEN "n_set" ELSE "idle")
    /\ UNCHANGED <<INITIALIZED, CAMERA_REFCNT, sess, tmp>> /\ ConcFrame

\* lib.rs:183  INITIALIZED.store(true)
NewStoreInitialized(t) ==
    /\ pc[t] = "n_set"
    /\ INITIALIZED' = TRUE
    /\ Goto(t, "n_open")
    /\ UNCHANGED <<CAMERA_REFCNT, plat, sess, tmp>> /\ ConcFrame

\* lib.rs:207-470: the enumeration, the activation and the reader; any
\* failure returns from new()
NewActivate(t) ==
    /\ pc[t] = "n_open"
    /\ \E ok \in BOOLEAN : Goto(t, IF ok THEN "n_load" ELSE "idle")
    /\ UNCHANGED <<INITIALIZED, CAMERA_REFCNT, plat, sess, tmp>> /\ ConcFrame

\* lib.rs:473  CAMERA_REFCNT.load()
NewLoadRefcnt(t) ==
    /\ pc[t] = "n_load"
    /\ tmp' = [tmp EXCEPT ![t] = CAMERA_REFCNT]
    /\ Goto(t, "n_store")
    /\ UNCHANGED <<INITIALIZED, CAMERA_REFCNT, plat, sess>> /\ ConcFrame

\* lib.rs:473-480  CAMERA_REFCNT.store(.. + 1); new() returns the session
NewStoreRefcnt(t) ==
    /\ pc[t] = "n_store"
    /\ refcnt_inc(tmp[t]) <= MaxRefcnt
    /\ CAMERA_REFCNT' = refcnt_inc(tmp[t])
    /\ sess' = [sess EXCEPT ![t] = [NoSession EXCEPT !.live = TRUE]]
    /\ tmp' = [tmp EXCEPT ![t] = 0]
    /\ Goto(t, "idle")
    /\ UNCHANGED <<INITIALIZED, plat>> /\ ConcFrame

\* lib.rs:1207-1211: drop() starts; Flush, its result dropped
DropFlush(t) ==
    /\ Idle(t) /\ sess[t].live
    /\ Goto(t, "d_check")
    /\ UNCHANGED <<INITIALIZED, CAMERA_REFCNT, plat, sess, tmp>> /\ ConcFrame

\* lib.rs:1214  if CAMERA_REFCNT.load() > 0
DropCheckRefcnt(t) ==
    /\ pc[t] = "d_check"
    /\ Goto(t, IF CAMERA_REFCNT # 0 THEN "d_load" ELSE "d_zero")
    /\ UNCHANGED <<INITIALIZED, CAMERA_REFCNT, plat, sess, tmp>> /\ ConcFrame

\* lib.rs:1215  CAMERA_REFCNT.load()
DropLoadRefcnt(t) ==
    /\ pc[t] = "d_load"
    /\ tmp' = [tmp EXCEPT ![t] = CAMERA_REFCNT]
    /\ Goto(t, "d_store")
    /\ UNCHANGED <<INITIALIZED, CAMERA_REFCNT, plat, sess>> /\ ConcFrame

\* The session of t is gone: drop() returned, or unwound.
Dropped(t, label) ==
    /\ sess' = [sess EXCEPT ![t] = NoSession]
    /\ tmp' = [tmp EXCEPT ![t] = 0]
    /\ Goto(t, label)

\* lib.rs:1215  CAMERA_REFCNT.store(.. - 1).  On a loaded 0 the subtraction
\* overflows usize: a build with overflow checks panics there, one without
\* stores the wrapped value.
DropStoreRefcnt(t) ==
    /\ pc[t] = "d_store"
    /\ refcnt_dec(tmp[t]) >= -MaxRefcnt
    /\ \/ /\ CAMERA_REFCNT' = refcnt_dec(tmp[t])
          /\ tmp' = [tmp EXCEPT ![t] = 0]
          /\ Goto(t, "d_zero")
          /\ UNCHANGED sess
       \/ /\ tmp[t] = 0
          /\ Dropped(t, "panicked")
          /\ UNCHANGED CAMERA_REFCNT
    /\ UNCHANGED <<INITIALIZED, plat>> /\ ConcFrame

\* lib.rs:1217  if CAMERA_REFCNT.load() == 0
DropCheckZero(t) ==
    /\ pc[t] = "d_zero"
    /\ IF CAMERA_REFCNT = 0
       THEN Goto(t, "d_init") /\ UNCHANGED <<sess, tmp>>
       ELSE Dropped(t, "idle")
    /\ UNCHANGED <<INITIALIZED, CAMERA_REFCNT, plat>> /\ ConcFrame

\* lib.rs:189  INITIALIZED.load(), in the de_initialize_mf() of lib.rs:1219
DropLoadInitialized(t) ==
    /\ pc[t] = "d_init"
    /\ IF INITIALIZED
       THEN Goto(t, "d_shutdown") /\ UNCHANGED <<sess, tmp>>
       ELSE Dropped(t, "idle")
    /\ UNCHANGED <<INITIALIZED, CAMERA_REFCNT, plat>> /\ ConcFrame

\* lib.rs:191-197: MFShutdown and CoUninitialize, as de_initialize_mf makes
\* them with the flag read as true; a failure returns, and drop() with it
DropShutdown(t) ==
    /\ pc[t] = "d_shutdown"
    /\ plat.mf > -MaxRefcnt
    /\ \E fault \in {"none", "MFShutdown"} :
          LET r == de_initialize_mf([init |-> TRUE, plat |-> plat], fault) IN
          /\ plat' = r.L.plat
          /\ IF r.res = "Ok"
             THEN Goto(t, "d_clear") /\ UNCHANGED <<sess, tmp>>
             ELSE Dropped(t, "idle")
    /\ UNCHANGED <<INITIALIZED, CAMERA_REFCNT>> /\ ConcFrame

\* lib.rs:198  INITIALIZED.store(false); drop() returns
DropStoreInitialized(t) ==
    /\ pc[t] = "d_clear"
    /\ INITIALIZED' = FALSE
    /\ Dropped(t, "idle")
    /\ UNCHANGED <<CAMERA_REFCNT, plat>> /\ ConcFrame

NextConc ==
    \E t \in Threads :
        \/ NewCall(t)
        \/ NewLoadInitialized(t)
        \/ NewStartup(t)
        \/ NewStoreInitialized(t)
        \/ NewActivate(t)
        \/ NewLoadRefcnt(t)
        \/ NewStoreRefcnt(t)
        \/ DropFlush(t)
        \/ DropCheckRefcnt(t)
        \/ DropLoadRefcnt(t)
        \/ DropStoreRefcnt(t)
        \/ DropCheckZero(t)
        \/ DropLoadInitialized(t)
        \/ DropShutdown(t)
        \/ DropStoreInitialized(t)

SpecConc == Init /\ [][NextConc]_vars


\* ------------------------------------------------------------- SpecPoll
\* One session, raw_bytes() split at every ReadSample of its loop
\* (lib.rs:1120-1137).  While the call runs, last.res is "pending",
\* last.calls grows with every platform call, last.fault is the reader's
\* latest answer and tmp[s] counts the answers "none_yet".
ReadAnswers == {"none_yet", "sample", "error"}

\* a loop that tries again after an Err of ReadSample
read_sample_retry_on_error(answer) ==
    IF answer = "sample" THEN "r_rest" ELSE "r_poll"

\* a loop without the break of lib.rs:1134-1136
read_sample_never_breaks(answer) ==
    IF answer = "error" THEN "return" ELSE "r_poll"

\* lib.rs:1121-1136, one pass of the loop: where the call goes on the reader's
\* answer.  An Err returns (lib.rs:1131), a sample breaks out (lib.rs:1134-
\* 1136), Ok without a sample goes round.
read_sample(answer) ==
    IF answer = "error" THEN "return"
    ELSE IF answer = "sample" THEN "r_rest"
    ELSE "r_poll"

\* raw_bytes() is called on session s
PollCall(s) ==
    /\ Idle(s) /\ sess[s].live
    /\ Goto(s, "r_poll")
    /\ tmp' = [tmp EXCEPT ![s] = 0]
    /\ last' = [NoCall EXCEPT !.op = "raw_bytes", !.s = s, !.res = "pending"]
    /\ UNCHANGED <<INITIALIZED, CAMERA_REFCNT, plat, sess, watch, loc>>

\* lib.rs:1121-1136: one ReadSample, the reader answering `answer`.  A reader
\* whose first video stream is not selected answers with an error.
ReadPollWith(s, answer) ==
    /\ pc[s] = "r_poll"
    /\ Len(last.calls) <= MaxPolls
    /\ answer = "none_yet" => tmp[s] < MaxPolls
    /\ sess[s].selected \/ answer = "error"
    /\ LET next == read_sample(answer)
           calls == Append(last.calls, "ReadSample")
       IN  /\ tmp' = [tmp EXCEPT ![s] = IF answer = "none_yet" THEN @ + 1 ELSE @]
           /\ IF next = "return"
              THEN /\ last' = [last EXCEPT !.res = "ReadFrameError",
                                           !.fault = "ReadSample", !.calls = calls]
                   /\ Goto(s, "idle")
                   /\ Noted(s, "ReadFrameError")
              ELSE /\ last' = [last EXCEPT !.fault = answer, !.calls = calls]
                   /\ Goto(s, next)
                   /\ UNCHANGED watch
    /\ UNCHANGED <<INITIALIZED, CAMERA_REFCNT, plat, sess, loc>>

ReadPoll(s) == \E answer \in ReadAnswers : ReadPollWith(s, answer)

\* the reader hands over a sample or fails
ReadDecide(s) == \E answer \in {"sample", "error"} : ReadPollWith(s, answer)

\* lib.rs:1140-1196: raw_bytes from the sample on, as raw_bytes(in) after its
\* ReadSample
ReadRest(s) ==
    /\ pc[s] = "r_rest"
    /\ \E in \in {i \in ReadInputs : i.polls = 0 /\ i.fault # "ReadSample"} :
          LET r == raw_bytes(in) IN
          /\ last' = [last EXCEPT !.res = r.res, !.fault = r.fault,
                                  !.calls = @ \o Tail(r.calls), !.val = r.val,
                                  !.aux = in.len, !.ptr_null = in.ptr_null]
          /\ Noted(s, r.res)
    /\ Goto(s, "idle")
    /\ UNCHANGED <<INITIALIZED, CAMERA_REFCNT, plat, sess, tmp, loc>>

\* start_stream(), stop_stream() and drop take &mut self or the session
\* itself: none runs while raw_bytes() holds the session
StartIdle(s) == Idle(s) /\ StartStream(s)

StopIdle(s) == Idle(s) /\ StopStream(s)

DropIdle(s) == Idle(s) /\ Drop(s)

NextPoll ==
    \/ OpenOne
    \/ \E s \in Sessions : StartIdle(s)
    \/ \E s \in Sessions : StopIdle(s)
    \/ \E s \in Sessions : PollCall(s)
    \/ \E s \in Sessions : ReadPoll(s)
    \/ \E s \in Sessions : ReadRest(s)
    \/ \E s \in Sessions : DropIdle(s)

SpecPoll == Init /\ [][NextPoll]_vars

\* SpecPoll with the reader sooner or later handing over a sample or an
\* error to a raw_bytes() that polls, and the calling thread running on
SpecPollFair ==
    /\ SpecPoll
    /\ \A s \in Sessions : WF_vars(ReadDecide(s)) /\ WF_vars(ReadRest(s))


\* ------------------------------------------------------------- formats
\* The subtype GUIDs the platform may report; NV12 and H264 stand for the
\* ones that lib.rs:100-117 does not name.
Subtypes == {"MJPEG", "YUY2", "GRAY", "NV12", "H264"}

\* Packed frame rates: numerator in hi, denominator in lo
Fractions == {U64(n, d) : n \in {0, 15, 30, 60}, d \in {1, 1001}}

FrameSizes == {U64(1280, 720)}

\* A native media type as the platform holds it
MediaTypes ==
    [subtype : Subtypes, frame_size : FrameSizes, rate_max : Fractions,
     rate : Fractions, rate_min : Fractions]

\* lib.rs:638-642  CameraFormat::new(Resolution::new(width, height), fmt, rate)
CameraFormat(width, height, frame_fmt, frame_rate) ==
    [width |-> width, height |-> height, format |-> frame_fmt,
     frame_rate |-> frame_rate]

\* lib.rs:576-582 (and 593-599, 611-617): a packed fraction to a frame rate
decode_fraction(fraction_u64) ==
    LET numerator == fraction_u64.hi
        denominator == fraction_u64.lo
    IN  IF denominator # 1 THEN 0 ELSE numerator

\* lib.rs:627-635: "continue" is the else branch
frame_fmt_of(fourcc) ==
    IF fourcc = "MJPEG" THEN "MJPEG"
    ELSE IF fourcc = "YUY2" THEN "YUYV"
    ELSE IF fourcc = "GRAY" THEN "GRAY"
    ELSE "continue"

\* pushes without the tests for 0 of lib.rs:637, 645 and 653
pushed_formats_with_zero(width, height, frame_fmt, frame_rate_min, frame_rate, frame_rate_max) ==
    <<CameraFormat(width, height, frame_fmt, frame_rate_min)>>
    \o (IF frame_rate_min # frame_rate
        THEN <<CameraFormat(width, height, frame_fmt, frame_rate)>> ELSE <<>>)
    \o (IF frame_rate # frame_rate_max
        THEN <<CameraFormat(width, height, frame_fmt, frame_rate_max)>> ELSE <<>>)

\* lib.rs:637-659: the entries one recognized native type adds
pushed_formats(width, height, frame_fmt, frame_rate_min, frame_rate, frame_rate_max) ==
    (IF frame_rate_min # 0
     THEN <<CameraFormat(width, height, frame_fmt, frame_rate_min)>> ELSE <<>>)
    \o (IF frame_rate # 0 /\ frame_rate_min # frame_rate
        THEN <<CameraFormat(width, height, frame_fmt, frame_rate)>> ELSE <<>>)
    \o (IF frame_rate_max # 0 /\ frame_rate # frame_rate_max
        THEN <<CameraFormat(width, height, frame_fmt, frame_rate_max)>> ELSE <<>>)

\* lib.rs:549-625: the attribute reads of one pass, in the order of the code
TypeSteps ==
    << [name |-> "MF_MT_SUBTYPE", fn |-> "GetGUID", err |-> "GetPropertyError"],
       [name |-> "MF_MT_FRAME_SIZE", fn |-> "GetUINT64", err |-> "GetPropertyError"],
       [name |-> "MF_MT_FRAME_RATE_RANGE_MAX", fn |-> "GetUINT64",
        err |-> "GetPropertyError"],
       [name |-> "MF_MT_FRAME_RATE", fn |-> "GetUINT64", err |-> "GetPropertyError"],
       [name |-> "MF_MT_FRAME_RATE_RANGE_MIN", fn |-> "GetUINT64",
        err |-> "GetPropertyError"] >>

\* lib.rs:549-661, the body of the loop for the media type just fetched, with
\* `index` and `list` the locals index and camera_format_list.  go is
\* "return" for an early return, "loop" for the next pass; the `continue` of
\* lib.rs:634 goes to the next pass past the `index += 1` of lib.rs:661.
format_list_pass(media_type, index, list, fault) ==
    IF fault # "none"
    THEN [go |-> "return", res |-> ErrorAt(TypeSteps, fault), index |-> index,
          list |-> list]
    ELSE LET width == media_type.frame_size.hi
             height == media_type.frame_size.lo
             frame_rate_max == decode_fraction(media_type.rate_max)
             frame_rate == decode_fraction(media_type.rate)
             frame_rate_min == decode_fraction(media_type.rate_min)
             frame_fmt == frame_fmt_of(media_type.subtype)
         IN  IF frame_fmt = "continue"
             THEN [go |-> "loop", res |-> "Ok", index |-> index, list |-> list]
             ELSE [go |-> "loop", res |-> "Ok", index |-> index + 1,
                   list |-> list \o pushed_formats(width, height, frame_fmt,
                                                   frame_rate_min, frame_rate,
                                                   frame_rate_max)]

\* The native media types of the lists with more than one type
MediaTypesL ==
    {mt \in MediaTypes :
        /\ mt.subtype \in {"MJPEG", "NV12"}
        /\ mt.rate_max = U64(60, 1) /\ mt.rate = U64(30, 1)
        /\ mt.rate_min \in {U64(15, 1), U64(30, 1)}}

RECURSIVE SeqsUpTo(_, _)
SeqsUpTo(S, n) ==
    IF n = 0 THEN {<<>>}
    ELSE LET shorter == SeqsUpTo(S, n - 1)
         IN  shorter \cup {Append(q, x) : q \in {r \in shorter : Len(r) = n - 1},
                                          x \in S}

\* The native media type lists of a device: the platform reports no more
\* types past the end of the list.
NativeListsL == SeqsUpTo(MediaTypesL, MaxNative)

NativeLists == NativeListsL \cup {<<mt>> : mt \in MediaTypes}

\* The GetNativeMediaType calls remembered: indices past this many are not
\* added to the record
MaxFetches == MaxNative + 2

\* ------------------------------------------------------------- SpecFormat
\* One session.  compatible_format_list() is split at every pass of its
\* loop; loc[s] holds its locals while it runs.  The value Ok returns is
\* loc[s].list at the returning step; last.val keeps its length.

\* lib.rs:541-543: compatible_format_list() is called on session s, whose
\* device has the native types `natives`
FormatListCallOn(s, lists) ==
    /\ Idle(s) /\ sess[s].live
    /\ \E natives \in lists :
          loc' = [loc EXCEPT ![s] = [NoLocals EXCEPT !.natives = natives]]
    /\ Goto(s, "cf_loop")
    /\ last' = [NoCall EXCEPT !.op = "compatible_format_list", !.s = s,
                              !.res = "pending"]
    /\ UNCHANGED <<INITIALIZED, CAMERA_REFCNT, plat, sess, watch, tmp>>

FormatListCall(s) == FormatListCallOn(s, NativeLists)

FormatListCallL(s) == FormatListCallOn(s, NativeListsL)

\* lib.rs:545-663: one GetNativeMediaType(index) and what follows it: Ok(list)
\* when the platform has no type at index, else one pass of the body.
FormatListPassWith(s, fault) ==
    /\ pc[s] = "cf_loop"
    /\ LET L == loc[s]
           fetched == IF Len(L.fetched) < MaxFetches
                      THEN Append(L.fetched, L.index) ELSE L.fetched
       IN  IF L.index >= Len(L.natives)
           THEN /\ last' = [last EXCEPT !.res = "Ok", !.val = Len(L.list)]
                /\ loc' = [loc EXCEPT ![s] = NoLocals]
                /\ Goto(s, "idle")
                /\ fault = "none"
                /\ UNCHANGED watch
           ELSE LET r == format_list_pass(L.natives[L.index + 1], L.index,
                                          L.list, fault)
                IN  IF r.go = "return"
                    THEN /\ last' = [last EXCEPT !.res = r.res, !.fault = fault]
                         /\ loc' = [loc EXCEPT ![s] = NoLocals]
                         /\ Goto(s, "idle")
                         /\ Noted(s, r.res)
                    ELSE /\ loc' = [loc EXCEPT ![s] =
                                       [L EXCEPT !.index = r.index, !.list = r.list,
                                                 !.fetched = fetched]]
                         /\ UNCHANGED <<last, pc, watch>>
    /\ UNCHANGED <<INITIALIZED, CAMERA_REFCNT, plat, sess, tmp>>

FormatListPass(s) ==
    \E fault \in {"none"} \cup StepNames(TypeSteps) : FormatListPassWith(s, fault)

NextFormat ==
    \/ OpenOne
    \/ \E s \in Sessions : FormatListCall(s)
    \/ \E s \in Sessions : FormatListPass(s)
    \/ \E s \in Sessions : DropIdle(s)

SpecFormat == Init /\ [][NextFormat]_vars

\* The lists of NativeListsL only, and the thread inside
\* compatible_format_list() running on: a pass whose platform calls succeed
\* is taken sooner or later.  A failing platform call is possible at every
\* pass and never owed.
NextFormatL ==
    \/ OpenOne
    \/ \E s \in Sessions : FormatListCallL(s)
    \/ \E s \in Sessions : FormatListPass(s)
    \/ \E s \in Sessions : DropIdle(s)

SpecFormatFair ==
    /\ Init /\ [][NextFormatL]_vars
    /\ \A s \in Sessions : WF_vars(FormatListPassWith(s, "none"))


\* ------------------------------------------------------------- SpecNegotiate
\* One session: set_format(), format_refreshed() and format().

\* The media types GetCurrentMediaType may report after a SetCurrentMediaType
ActiveTypes ==
    [subtype : {"MJPEG", "NV12"}, frame_size : FrameSizes,
     rate : {U64(29, 1), U64(30, 1), U64(30000, 1001)}]

\* The formats a caller asks for.  frame_rate is a u32; the rates drawn have
\* a low byte under 128, so that the packed numerator stays an integer of
\* the model.
RequestedFormats ==
    {CameraFormat(1280, 720, f, r) : f \in {"MJPEG", "YUYV"}, r \in {30, 286}}

\* lib.rs:1026  format.frame_rate() as u8
as_u8(x) == x % 256

\* u64::from_le_bytes, lib.rs:1029: bytes[0] is the lowest byte (bytes[k] of
\* the code is b[k + 1])
from_le_bytes(b) ==
    U64(b[5] + b[6] * (2^8) + b[7] * (2^16) + b[8] * (2^24),
        b[1] + b[2] * (2^8) + b[3] * (2^16) + b[4] * (2^24))

\* lib.rs:1023-1030
packed_fps(frame_rate) ==
    LET frame_rate_u64 == <<0, 0, 0, 0, 0, 0, 0, 0>>
        bytes == [frame_rate_u64 EXCEPT ![8] = as_u8(frame_rate), ![4] = 1]
    IN  from_le_bytes(bytes)

\* lib.rs:1031-1035
fourcc_of(frame_fmt) ==
    IF frame_fmt = "MJPEG" THEN "MJPEG"
    ELSE IF frame_fmt = "YUYV" THEN "YUY2"
    ELSE "GRAY"

\* lib.rs:1021-1078: the media type set_format builds from `format`
built_media_type(format) ==
    LET resolution == U64(format.width, format.height)
        fps == packed_fps(format.frame_rate)
        fourcc == fourcc_of(format.format)
    IN  [major |-> "MFMediaType_Video", subtype |-> fourcc,
         frame_size |-> resolution, rate |-> fps, rate_min |-> fps,
         rate_max |-> fps]

\* lib.rs:939-990: the steps of format_refreshed; the last one is the `_`
\* arm of lib.rs:977
RefreshSteps ==
    << [name |-> "GetCurrentMediaType", fn |-> "GetCurrentMediaType",
        err |-> "GetPropertyError"],
       [name |-> "MF_MT_FRAME_SIZE", fn |-> "GetUINT64", err |-> "GetPropertyError"],
       [name |-> "MF_MT_FRAME_RATE", fn |-> "GetUINT64", err |-> "GetPropertyError"],
       [name |-> "MF_MT_SUBTYPE", fn |-> "GetGUID", err |-> "GetPropertyError"],
       [name |-> "subtype_unknown", fn |-> "", err |-> "GetPropertyError"] >>

\* lib.rs:938-1002.  `fault` is the first failing platform call.  Returns the
\* session after the call.
format_refreshed(self, fault) ==
    LET media_type == self.active
        width == media_type.frame_size.hi
        height == media_type.frame_size.lo
        frame_rate == media_type.rate.lo
        format == IF media_type.subtype = "YUY2" THEN "YUYV"
                  ELSE IF media_type.subtype = "GRAY" THEN "GRAY"
                  ELSE IF media_type.subtype = "MJPEG" THEN "MJPEG"
                  ELSE "subtype_unknown"
    IN  IF fault # "none"
        THEN [res |-> ErrorAt(RefreshSteps, fault), fault |-> fault, self |-> self,
              calls |-> CallsUpTo(RefreshSteps, fault)]
        ELSE IF format = "subtype_unknown"
        THEN [res |-> ErrorAt(RefreshSteps, format), fault |-> format, self |-> self,
              calls |-> CallsUpTo(RefreshSteps, format)]
        ELSE LET cfmt == CameraFormat(width, height, format, frame_rate)
             IN  [res |-> "Ok", fault |-> "none",
                  self |-> [self EXCEPT !.device_format = cfmt],
                  calls |-> CallsUpTo(RefreshSteps, "subtype_unknown")]

RefreshFaults ==
    {"none", "GetCurrentMediaType", "MF_MT_FRAME_SIZE", "MF_MT_FRAME_RATE",
     "MF_MT_SUBTYPE"}

\* lib.rs:1010-1093: the platform calls of set_format before format_refreshed
SetFormatSteps ==
    << [name |-> "MFCreateMediaType", fn |-> "MFCreateMediaType",
        err |-> "StructureError"],
       [name |-> "MF_MT_MAJOR_TYPE", fn |-> "SetGUID", err |-> "SetPropertyError"],
       [name |-> "MF_MT_SUBTYPE", fn |-> "SetGUID", err |-> "SetPropertyError"],
       [name |-> "MF_MT_FRAME_SIZE", fn |-> "SetUINT64", err |-> "SetPropertyError"],
       [name |-> "MF_MT_FRAME_RATE", fn |-> "SetUINT64", err |-> "SetPropertyError"],
       [name |-> "MF_MT_FRAME_RATE_RANGE_MIN", fn |-> "SetUINT64",
        err |-> "SetPropertyError"],
       [name |-> "MF_MT_FRAME_RATE_RANGE_MAX", fn |-> "SetUINT64",
        err |-> "SetPropertyError"],
       [name |-> "SetCurrentMediaType", fn |-> "SetCurrentMediaType",
        err |-> "SetPropertyError"] >>

\* lib.rs:1008-1097.  in.fault is the first failing call of SetFormatSteps,
\* in.snap the media type the reader reports as current once
\* SetCurrentMediaType succeeded, in.rfault the first failing call of the
\* format_refreshed of lib.rs:1095.
set_format(self, format, in) ==
    IF in.fault # "none"
    THEN [res |-> ErrorAt(SetFormatSteps, in.fault), fault |-> in.fault,
          self |-> self, calls |-> CallsUpTo(SetFormatSteps, in.fault)]
    ELSE LET set == [self EXCEPT !.media_type = built_media_type(format),
                                 !.active = in.snap,
                                 !.device_format = format]
             r == format_refreshed(set, in.rfault)
         IN  [res |-> r.res, fault |-> r.fault, self |-> r.self,
              calls |-> CallsUpTo(SetFormatSteps, "none") \o r.calls]

\* What the platform may answer to one set_format()
SetFormatInputs ==
    [fault : StepNames(SetFormatSteps), snap : {InitialType}, rfault : {"none"}]
    \cup [fault : {"none"}, snap : ActiveTypes, rfault : RefreshFaults]

SetFormat(s) ==
    /\ Idle(s) /\ sess[s].live
    /\ \E format \in RequestedFormats, in \in SetFormatInputs :
          LET r == set_format(sess[s], format, in) IN
          /\ sess' = [sess EXCEPT ![s] = r.self]
          /\ last' = [NoCall EXCEPT !.op = "set_format", !.s = s, !.res = r.res,
                                    !.fault = r.fault, !.calls = r.calls,
                                    !.val = format.frame_rate]
          /\ Noted(s, r.res)
    /\ UNCHANGED <<INITIALIZED, CAMERA_REFCNT, plat, pc, tmp, loc>>

FormatRefreshed(s) ==
    /\ Idle(s) /\ sess[s].live
    /\ \E fault \in RefreshFaults :
          LET r == format_refreshed(sess[s], fault) IN
          /\ sess' = [sess EXCEPT ![s] = r.self]
          /\ last' = [NoCall EXCEPT !.op = "format_refreshed", !.s = s,
                                    !.res = r.res, !.fault = r.fault,
                                    !.calls = r.calls]
          /\ Noted(s, r.res)
    /\ UNCHANGED <<INITIALIZED, CAMERA_REFCNT, plat, pc, tmp, loc>>

\* lib.rs:1004-1006: format() returns sess[s].device_format
Format(s) ==
    /\ Idle(s) /\ sess[s].live
    /\ last' = [NoCall EXCEPT !.op = "format", !.s = s]
    /\ UNCHANGED <<INITIALIZED, CAMERA_REFCNT, plat, sess, watch, pc, tmp, loc>>

\* One native type, its three rates the same fraction
NativeListsD ==
    {<<[subtype |-> "YUY2", frame_size |-> size, rate_max |-> fraction,
        rate |-> fraction, rate_min |-> fraction]>> :
        size \in FrameSizes, fraction \in Fractions}

FormatListCallD(s) == FormatListCallOn(s, NativeListsD)

NextNegotiate ==
    \/ OpenOne
    \/ \E s \in Sessions : SetFormat(s)
    \/ \E s \in Sessions : FormatRefreshed(s)
    \/ \E s \in Sessions : Format(s)
    \/ \E s \in Sessions : FormatListCallD(s)
    \/ \E s \in Sessions : FormatListPass(s)
    \/ \E s \in Sessions : DropIdle(s)

SpecNegotiate == Init /\ [][NextNegotiate]_vars


\* ------------------------------------------------------------- SpecOpen
\* One session at a time; new() and query_media_foundation_descriptors()
\* with every device list and every failing call: a failing call is drawn
\* with the stable device list, a device list with no failing call.

\* What the platform may answer to one query_media_foundation_descriptors()
ListInputsO(L) ==
    {[fault |-> f, enum |-> <<>>, fk |-> 0, dfault |-> "none"] :
        f \in QapFaults(L) \ {"none"}}
    \cup {[fault |-> "none", enum |-> e, fk |-> 0, dfault |-> "none"] :
        e \in Enumerations}
    \cup [fault : {"none"}, enum : {StableEnum}, fk : 1..NumDevices,
          dfault : StepNames(DescriptorSteps)]

\* What the platform may answer to one new(Index(i))
NewInputsO(L) ==
    {[qfault |-> f, enum |-> <<>>, fault |-> "none"] : f \in QapFaults(L) \ {"none"}}
    \cup [qfault : {"none"}, enum : Enumerations, fault : {"none"}]
    \cup [qfault : {"none"}, enum : {StableEnum}, fault : StepNames(NewSteps)]

ListDevicesAny == \E in \in ListInputsO(Life) : ListDevicesWith(in)

OpenIndexAny ==
    /\ LiveSet = {}
    /\ \E i \in 0..NumDevices, in \in NewInputsO(Life) :
          LET r == new_index(Life, CAMERA_REFCNT, i, in.qfault, in.enum, in.fault)
          IN  \E sel \in Selections(r) : Opened(r, sel, "Index", i)

OpenStringAny ==
    /\ LiveSet = {}
    /\ \E s \in 1..(NumDevices + 1), in1 \in ListInputsO(Life) :
          LET d == query_media_foundation_descriptors(Life, in1.fault, in1.enum,
                                                      in1.fk, in1.dfault)
          IN  \E in2 \in IF d.res = "Ok" /\ IdEq(d.infos, s) # -1
                         THEN NewInputsO(d.L) ELSE {NoIn2} :
                 LET r == new_string(Life, CAMERA_REFCNT, s, in1, in2)
                 IN  \E sel \in Selections(r) : Opened(r, sel, "String", s)

NextOpen ==
    \/ ListDevicesAny
    \/ OpenIndexAny
    \/ OpenStringAny
    \/ \E s \in Sessions : Drop(s)

SpecOpen == Init /\ [][NextOpen]_vars


\* ------------------------------------------------------------- controls
\* KnownCameraControl: a named control, or Other(o).  The ids of the
\* platform (VideoProcAmp_Brightness, CameraControl_Pan, ...) are kept by
\* name; o is the name of the id it is equal to, or a name of no id.
Named(name) == [name |-> name, o |-> ""]
Other(o) == [name |-> "Other", o |-> o]

NamedControls ==
    {"Brightness", "Contrast", "Hue", "Saturation", "Sharpness", "Gamma",
     "WhiteBalance", "BacklightComp", "Gain", "Pan", "Tilt", "Zoom",
     "Exposure", "Iris", "Focus"}

OtherIds == {"VideoProcAmp_ColorEnable", "VideoProcAmp_Gain", "unknown"}

KnownCameraControls ==
    {Named(n) : n \in NamedControls} \cup {Other(o) : o \in OtherIds}

\* lib.rs:351-356
MFControlId(kind, id) == [kind |-> kind, id |-> id]
None == MFControlId("None", "")

\* lib.rs:360-378: the arms of the named controls
named_to_id(kcc) ==
    IF kcc.name = "Brightness" THEN MFControlId("ProcAmpRange", "VideoProcAmp_Brightness")
    ELSE IF kcc.name = "Contrast" THEN MFControlId("ProcAmpRange", "VideoProcAmp_Contrast")
    ELSE IF kcc.name = "Hue" THEN MFControlId("ProcAmpRange", "VideoProcAmp_Hue")
    ELSE IF kcc.name = "Saturation" THEN MFControlId("ProcAmpRange", "VideoProcAmp_Saturation")
    ELSE IF kcc.name = "Sharpness" THEN MFControlId("ProcAmpRange", "VideoProcAmp_Sharpness")
    ELSE IF kcc.name = "Gamma" THEN MFControlId("ProcAmpRange", "VideoProcAmp_Gamma")
    ELSE IF kcc.name = "WhiteBalance"
    THEN MFControlId("ProcAmpRange", "VideoProcAmp_WhiteBalance")
    ELSE IF kcc.name = "BacklightComp"
    THEN MFControlId("ProcAmpBoolean", "VideoProcAmp_BacklightCompensation")
    ELSE IF kcc.name = "Gain" THEN MFControlId("ProcAmpRange", "VideoProcAmp_Gain")
    ELSE IF kcc.name = "Pan" THEN MFControlId("CCRange", "CameraControl_Pan")
    ELSE IF kcc.name = "Tilt" THEN MFControlId("CCRange", "CameraControl_Tilt")
    ELSE IF kcc.name = "Zoom" THEN MFControlId("CCRange", "CameraControl_Zoom")
    ELSE IF kcc.name = "Exposure" THEN MFControlId("CCValue", "CameraControl_Exposure")
    ELSE IF kcc.name = "Iris" THEN MFControlId("CCValue", "CameraControl_Iris")
    ELSE MFControlId("CCValue", "CameraControl_Focus")

\* kcc_to_i32 without the comparison of lib.rs:381: every Other(o) is
\* resolved to o
kcc_to_i32_any_other(kcc) ==
    IF kcc.name = "Other" THEN MFControlId("ProcAmpRange", kcc.o)
    ELSE named_to_id(kcc)

\* lib.rs:358-390
kcc_to_i32(kcc) ==
    IF kcc.name = "Other"
    THEN IF kcc.o = "VideoProcAmp_ColorEnable"
         THEN MFControlId("ProcAmpRange", kcc.o)
         ELSE None
    ELSE named_to_id(kcc)

\* ControlValueSetter.  An Integer(i) is an i64, kept as its high 32 bits
\* and its low 32 bits read as an i32: `i as i32` (lib.rs:889) is lo.
ControlValueSetter(tag, hi, lo) == [tag |-> tag, hi |-> hi, lo |-> lo]

ControlValues ==
    {ControlValueSetter("Integer", 0, 1), ControlValueSetter("Integer", 1, 1),
     ControlValueSetter("Boolean", 0, 1), ControlValueSetter("Boolean", 0, 0),
     ControlValueSetter("Float", 0, 0)}

\* The controls the callers of the model ask for
ControlsL ==
    {Named("Exposure"), Other("VideoProcAmp_ColorEnable"), Other("unknown")}

\* lib.rs:713-824: the interface control() reads a control id through
read_interface(control_id) ==
    IF control_id.kind \in {"ProcAmpBoolean", "ProcAmpRange"}
    THEN "IAMVideoProcAmp" ELSE "IAMCameraControl"

\* lib.rs:667-824: the steps of control().  media_source is
\* receiver.assume_init() (lib.rs:682) of a receiver GetServiceForStream
\* did not write: what the two casts give is the platform's to choose.
ControlSteps(control_id) ==
    << [name |-> "GetServiceForStream", fn |-> "GetServiceForStream",
        err |-> "SetPropertyError"],
       [name |-> "IAMCameraControl", fn |-> "cast::<IAMCameraControl>",
        err |-> "StructureError"],
       [name |-> "IAMVideoProcAmp", fn |-> "cast::<IAMVideoProcAmp>",
        err |-> "StructureError"],
       [name |-> "Does not exist", fn |-> "", err |-> "SetPropertyError"],
       [name |-> "GetRange",
        fn |-> IF read_interface(control_id) = "IAMVideoProcAmp"
               THEN "IAMVideoProcAmp::GetRange" ELSE "IAMCameraControl::GetRange",
        err |-> "GetPropertyError"],
       [name |-> "Get",
        fn |-> IF read_interface(control_id) = "IAMVideoProcAmp"
               THEN "IAMVideoProcAmp::Get" ELSE "IAMCameraControl::Get",
        err |-> "GetPropertyError"] >>

ControlFaults ==
    {"none", "GetServiceForStream", "IAMCameraControl", "IAMVideoProcAmp",
     "GetRange", "Get"}

\* lib.rs:666-836.  `fault` is the first failing platform call.  mode is
\* the flag of the CameraControl returned, value its value.
control(self, kcc, fault) ==
    LET control_id == kcc_to_i32(kcc)
        steps == ControlSteps(control_id)
        failing == IF fault \in {"GetServiceForStream", "IAMCameraControl",
                                 "IAMVideoProcAmp"}
                   THEN fault
                   ELSE IF control_id = None THEN "Does not exist"
                   ELSE fault
    IN  IF failing # "none"
        THEN [res |-> ErrorAt(steps, failing), fault |-> failing,
              calls |-> CallsUpTo(steps, failing), mode |-> "", value |-> 0]
        ELSE LET cell == self.controls[Cell(read_interface(control_id),
                                            control_id.id)]
                 flag == cell.flag
                 is_manual == IF flag = "CameraControl_Flags_Manual"
                              THEN "Manual" ELSE "Automatic"
             IN  [res |-> "Ok", fault |-> "none",
                  calls |-> CallsUpTo(steps, "none"), mode |-> is_manual,
                  value |-> cell.value]

\* the flag of lib.rs:899-912 with Manual in both arms
set_flag_manual(mode) == "CameraControl_Flags_Manual"

\* lib.rs:899-912: the flag set_control() passes to Set
set_flag(mode) ==
    IF mode = "Automatic" THEN "CameraControl_Flags_Auto"
    ELSE "CameraControl_Flags_Manual"

\* lib.rs:914-933: the interface set_control() writes a control id through
set_interface(control_id) ==
    IF control_id.kind \in {"ProcAmpBoolean", "ProcAmpRange"}
    THEN "IAMVideoProcAmp" ELSE "IAMCameraControl"

\* the value of lib.rs:888-897 with an arm that takes any other value as 0
ctrl_value_any(value) ==
    IF value.tag = "Integer" THEN [ok |-> TRUE, v |-> value.lo]
    ELSE IF value.tag = "Boolean" THEN [ok |-> TRUE, v |-> value.lo]
    ELSE [ok |-> TRUE, v |-> 0]

\* lib.rs:888-897: i as i32, b as i32, or the StructureError
ctrl_value(value) ==
    IF value.tag = "Integer" THEN [ok |-> TRUE, v |-> value.lo]
    ELSE IF value.tag = "Boolean" THEN [ok |-> TRUE, v |-> value.lo]
    ELSE [ok |-> FALSE, v |-> 0]

\* lib.rs:844-933: the steps of set_control() after control()
SetControlSteps(control_id) ==
    << [name |-> "GetServiceForStream", fn |-> "GetServiceForStream",
        err |-> "SetPropertyError"],
       [name |-> "IAMCameraControl", fn |-> "cast::<IAMCameraControl>",
        err |-> "StructureError"],
       [name |-> "IAMVideoProcAmp", fn |-> "cast::<IAMVideoProcAmp>",
        err |-> "StructureError"],
       [name |-> "Does not exist", fn |-> "", err |-> "SetPropertyError"],
       [name |-> "invalid value type", fn |-> "", err |-> "StructureError"],
       [name |-> "Set",
        fn |-> IF set_interface(control_id) = "IAMVideoProcAmp"
               THEN "IAMVideoProcAmp::Set" ELSE "IAMCameraControl::Set",
        err |-> "SetPropertyError"] >>

SetControlFaults ==
    {"none", "GetServiceForStream", "IAMCameraControl", "IAMVideoProcAmp", "Set"}

NoSet == [interface |-> "", id |-> "", value |-> 0, flag |-> ""]

\* lib.rs:838-936.  in.cfault is the first failing call of the control() of
\* lib.rs:843, in.sfault the first failing call after it.  set is the
\* native Set made; a Set that succeeds writes the device's cell.
set_control(self, kcc, value, in) ==
    LET current_value == control(self, kcc, in.cfault) IN
    IF current_value.res # "Ok"
    THEN [res |-> current_value.res, fault |-> current_value.fault,
          calls |-> current_value.calls, self |-> self, set |-> NoSet,
          mode |-> ""]
    ELSE LET control_id == kcc_to_i32(kcc)
             steps == SetControlSteps(control_id)
             failing == IF in.sfault \in {"GetServiceForStream", "IAMCameraControl",
                                          "IAMVideoProcAmp"}
                        THEN in.sfault
                        ELSE IF control_id = None THEN "Does not exist"
                        ELSE IF ~ctrl_value(value).ok THEN "invalid value type"
                        ELSE in.sfault
             flag == set_flag(current_value.mode)
             set == [interface |-> set_interface(control_id),
                     id |-> control_id.id, value |-> ctrl_value(value).v,
                     flag |-> flag]
         IN  IF failing # "none"
             THEN [res |-> ErrorAt(steps, failing), fault |-> failing,
                   calls |-> current_value.calls \o CallsUpTo(steps, failing),
                   self |-> self,
                   set |-> IF failing = "Set" THEN set ELSE NoSet,
                   mode |-> current_value.mode]
             ELSE [res |-> "Ok", fault |-> "none",
                   calls |-> current_value.calls \o CallsUpTo(steps, "none"),
                   self |-> [self EXCEPT
                                !.controls[Cell(set.interface, set.id)] =
                                    [value |-> set.value, flag |-> set.flag]],
                   set |-> set, mode |-> current_value.mode]

\* What the platform may answer to one set_control(): one failing call at
\* most
SetControlInputs ==
    [cfault : ControlFaults, sfault : {"none"}]
    \cup [cfault : {"none"}, sfault : SetControlFaults]

\* ------------------------------------------------------------- SpecControl
\* One session: control() and set_control(), and the device changing the
\* mode of a control by itself.
Control(s) ==
    /\ Idle(s) /\ sess[s].live
    /\ \E kcc \in ControlsL, fault \in ControlFaults :
          LET r == control(sess[s], kcc, fault) IN
          /\ last' = [NoCall EXCEPT !.op = "control", !.s = s, !.res = r.res,
                                    !.fault = r.fault, !.calls = r.calls,
                                    !.val = r.value, !.mode = r.mode,
                                    !.control = kcc]
          /\ Noted(s, r.res)
    /\ UNCHANGED <<INITIALIZED, CAMERA_REFCNT, plat, sess, pc, tmp, loc>>

SetControl(s) ==
    /\ Idle(s) /\ sess[s].live
    /\ \E kcc \in ControlsL, value \in ControlValues, in \in SetControlInputs :
          LET r == set_control(sess[s], kcc, value, in) IN
          /\ sess' = [sess EXCEPT ![s] = r.self]
          /\ last' = [NoCall EXCEPT !.op = "set_control", !.s = s, !.res = r.res,
                                    !.fault = r.fault, !.calls = r.calls,
                                    !.mode = r.mode, !.set = r.set,
                                    !.control = kcc, !.value = value]
          /\ Noted(s, r.res)
    /\ UNCHANGED <<INITIALIZED, CAMERA_REFCNT, plat, pc, tmp, loc>>

\* The device (its driver, another program) changes the mode of a control.
DeviceSwitch(s) ==
    /\ Idle(s) /\ sess[s].live
    /\ \E c \in Cells, flag \in Flags :
          /\ sess[s].controls[c].flag # flag
          /\ sess' = [sess EXCEPT ![s].controls[c].flag = flag]
    /\ last' = NoCall
    /\ UNCHANGED <<INITIALIZED, CAMERA_REFCNT, plat, watch, pc, tmp, loc>>

NextControl ==
    \/ OpenOne
    \/ \E s \in Sessions : Control(s)
    \/ \E s \in Sessions : SetControl(s)
    \/ \E s \in Sessions : DeviceSwitch(s)
    \/ \E s \in Sessions : DropIdle(s)

SpecControl == Init /\ [][NextControl]_vars


\* ------------------------------------------------------------- SpecShare
\* Several sessions at once, each with its own is_open, device_format and
\* source reader (lib.rs:392-397): start_stream(), stop_stream(),
\* set_format() and format_refreshed() called on any of them in any order.
\* The sessions stay open.

\* The format a caller asks for
RequestedFormatsS == {CameraFormat(1280, 720, "MJPEG", 30)}

\* What the platform may answer to one set_format(): SetCurrentMediaType
\* fails, or the type becomes the reader's and the read-back succeeds or
\* fails at its first call
SetFormatInputsS ==
    {[fault |-> "SetCurrentMediaType", snap |-> InitialType, rfault |-> "none"]}
    \cup [fault : {"none"},
          snap : {[subtype |-> "MJPEG", frame_size |-> U64(1280, 720),
                   rate |-> U64(30, 1)]},
          rfault : {"none", "GetCurrentMediaType"}]

\* set_format() as it would be if the cached format were a static of the
\* module like INITIALIZED: every live session's device_format is written
SetFormatS_static_format(s) ==
    /\ Idle(s) /\ sess[s].live
    /\ \E format \in RequestedFormatsS, in \in SetFormatInputsS :
          LET r == set_format(sess[s], format, in) IN
          /\ sess' = [o \in Sessions |->
                         IF o = s THEN r.self
                         ELSE IF sess[o].live
                         THEN [sess[o] EXCEPT !.device_format = r.self.device_format]
                         ELSE sess[o]]
          /\ last' = [NoCall EXCEPT !.op = "set_format", !.s = s, !.res = r.res,
                                    !.fault = r.fault, !.calls = r.calls,
                                    !.val = format.frame_rate]
    /\ UNCHANGED <<INITIALIZED, CAMERA_REFCNT, plat, watch, pc, tmp, loc>>

\* the caller calls set_format(format) on session s (lib.rs:1008-1097)
SetFormatS(s) ==
    /\ Idle(s) /\ sess[s].live
    /\ \E format \in RequestedFormatsS, in \in SetFormatInputsS :
          LET r == set_format(sess[s], format, in) IN
          /\ sess' = [sess EXCEPT ![s] = r.self]
          /\ last' = [NoCall EXCEPT !.op = "set_format", !.s = s, !.res = r.res,
                                    !.fault = r.fault, !.calls = r.calls,
                                    !.val = format.frame_rate]
    /\ UNCHANGED <<INITIALIZED, CAMERA_REFCNT, plat, watch, pc, tmp, loc>>

\* the caller calls format_refreshed() on session s (lib.rs:938-1002)
FormatRefreshedS(s) ==
    /\ Idle(s) /\ sess[s].live
    /\ \E fault \in {"none", "GetCurrentMediaType"} :
          LET r == format_refreshed(sess[s], fault) IN
          /\ sess' = [sess EXCEPT ![s] = r.self]
          /\ last' = [NoCall EXCEPT !.op = "format_refreshed", !.s = s,
                                    !.res = r.res, !.fault = r.fault,
                                    !.calls = r.calls]
    /\ UNCHANGED <<INITIALIZED, CAMERA_REFCNT, plat, watch, pc, tmp, loc>>

\* new(CameraIndex::Index(0)) with every platform call succeeding: the
\* sessions are opened on the same device
OpenIndexS ==
    /\ LiveSet # Sessions
    /\ LET r == new_index(Life, CAMERA_REFCNT, 0, "none", StableEnum, "none")
       IN  \E sel \in Selections(r) : Opened(r, sel, "Index", 0)

NextShare ==
    \/ OpenIndexS
    \/ \E s \in Sessions : StartStream(s)
    \/ \E s \in Sessions : StopStream(s)
    \/ \E s \in Sessions : SetFormatS(s)
    \/ \E s \in Sessions : FormatRefreshedS(s)

SpecShare == Init /\ [][NextShare]_vars


\* ------------------------------------------------------------- claims
\* fn is among the platform calls of the call c
Called(c, fn) == \E k \in 1..Len(c.calls) : c.calls[k] = fn

\* C1 (Spec): a successful new() raises CAMERA_REFCNT by exactly one, a
\* failing one leaves it, every drop lowers it by exactly one and no other
\* call changes it; when a session is dropped and no other session was
\* opened or dropped since its new(), the count after the drop is the count
\* just before that new(), whether or not calls on the session failed in
\* between.
C1_Step ==
    /\ (last'.op = "new" /\ last'.res = "Ok") => CAMERA_REFCNT' = CAMERA_REFCNT + 1
    /\ (last'.op = "new" /\ last'.res # "Ok") => CAMERA_REFCNT' = CAMERA_REFCNT
    /\ last'.op = "drop" =>
          /\ CAMERA_REFCNT' = CAMERA_REFCNT - 1
          /\ watch.s = last'.s => CAMERA_REFCNT' = watch.cnt0
    /\ last'.op \notin {"new", "drop"} => CAMERA_REFCNT' = CAMERA_REFCNT

C2_RefcntCountsSessions ==
    Quiescent => CAMERA_REFCNT = Cardinality(LiveSet)

\* C3 (SpecConc): CAMERA_REFCNT never wraps below zero, and the value drop()
\* loads for its subtraction is > 0.
C3_RefcntNonNegative ==
    /\ CAMERA_REFCNT >= 0
    /\ \A t \in Threads : pc[t] = "d_store" => tmp[t] > 0

\* C4 as claimed (Spec): after a drop, MFShutdown was called by it exactly
\* when no session is left live, and the flag is false if it succeeded.
C4_ShutdownAtLastDrop ==
    last.op = "drop" =>
        /\ Called(last, "MFShutdown") <=> LiveSet = {}
        /\ Called(last, "CoUninitialize") => ~INITIALIZED

\* C4 amended (Spec): a drop calls MFShutdown exactly when it leaves the
\* count at zero and the flag was still true; then the flag is false
\* afterwards if MFShutdown succeeded.  The count is at zero exactly when no
\* session is left live, so a drop that leaves another session live calls no
\* MFShutdown; a failing Flush changes none of this.
C4_Step ==
    last'.op = "drop" =>
        /\ Called(last', "MFShutdown") <=> (CAMERA_REFCNT' = 0 /\ INITIALIZED)
        /\ CAMERA_REFCNT' = 0 <=> LiveSet' = {}
        /\ Called(last', "CoUninitialize") => ~INITIALIZED'
        /\ (CAMERA_REFCNT' = 0 /\ ~Called(last', "MFShutdown")) => ~INITIALIZED'

C4_ShutdownAtZero == [][C4_Step]_vars

\* the last live session was dropped, its Flush failed, MFShutdown ran and
\* the flag is false
C4_Witness ==
    /\ last.op = "drop"
    /\ last.fault = "Flush"
    /\ LiveSet = {}
    /\ last.calls = <<"Flush", "MFShutdown", "CoUninitialize">>
    /\ ~INITIALIZED

\* Whatever the call, with the flag true it makes no platform startup call.
C5_Idempotent ==
    INITIALIZED =>
        /\ ~Called(last', "CoInitializeEx") /\ ~Called(last', "MFStartup")
        /\ last'.op = "initialize_mf" =>
              /\ last'.res = "Ok" /\ last'.calls = <<>>
              /\ INITIALIZED' /\ plat' = plat

\* C5 as claimed (Spec): initialize_mf() with the flag true returns Ok and
\* calls no platform startup function, and MFStartup is called at most once
\* between two successful MFShutdown.
C5_StartupInvokedOnce ==
    [][C5_Idempotent /\ (Called(last', "MFStartup") => ~plat.tried)]_vars

\* C5 amended (Spec): ... and MFStartup succeeds at most once between two
\* successful MFShutdown (a failed startup is tried again).
C5_StartupSucceedsOnce ==
    [][C5_Idempotent /\ (plat'.mf > plat.mf => plat.mf = 0) /\ plat'.mf <= 1]_vars

\* initialize_mf() was called with the flag true
C5_Witness ==
    /\ last.op = "initialize_mf"
    /\ last.calls = <<>>
    /\ INITIALIZED
    /\ plat.mf = 1

\* C6 (Spec): de_initialize_mf() calls MFShutdown only with the flag true;
\* with the flag false it returns Ok, calls nothing and leaves the flag,
\* the count and the platform as they were.
C6_Step ==
    last'.op = "de_initialize_mf" =>
        /\ Called(last', "MFShutdown") => INITIALIZED
        /\ ~INITIALIZED =>
              /\ last'.res = "Ok" /\ last'.calls = <<>>
              /\ ~INITIALIZED' /\ CAMERA_REFCNT' = CAMERA_REFCNT /\ plat' = plat

C6_ShutdownOnlyIfInitialized == [][C6_Step]_vars

\* de_initialize_mf() was called with the flag false and no session ever
\* opened since the platform was last up
C6_Witness ==
    /\ last.op = "de_initialize_mf"
    /\ last.calls = <<>>
    /\ ~INITIALIZED
    /\ CAMERA_REFCNT = 0

\* C7 (Spec): a failing CoInitializeEx or MFStartup makes initialize_mf()
\* return InitializeError with the flag false, and initialize_mf() with the
\* flag false starts over at CoInitializeEx; a failing MFShutdown makes
\* de_initialize_mf() return ShutdownError with the flag true.
C7_Step ==
    /\ (last'.op = "initialize_mf" /\ last'.fault # "none") =>
          last'.res = "InitializeError" /\ ~INITIALIZED'
    /\ (last'.op = "initialize_mf" /\ ~INITIALIZED) =>
          Len(last'.calls) > 0 /\ last'.calls[1] = "CoInitializeEx"
    /\ (last'.op = "de_initialize_mf" /\ last'.fault = "MFShutdown") =>
          last'.res = "ShutdownError" /\ INITIALIZED'

C7_LifecycleErrors == [][C7_Step]_vars

\* initialize_mf() returned InitializeError from a failing MFStartup
C7_Witness ==
    /\ last.op = "initialize_mf"
    /\ last.res = "InitializeError"
    /\ last.fault = "MFStartup"
    /\ ~INITIALIZED

\* C8 (Spec): is_open is false after new(); a start_stream() that succeeds
\* sets it, one whose SetStreamSelection fails returns an error and leaves
\* it; stop_stream() clears it; nothing else changes it.  So it is true
\* exactly when the last start_stream/stop_stream that took effect was a
\* successful start_stream, after any number of stops.
C8_StepOf(s) ==
    /\ (last'.op = "new" /\ last'.s = s) => ~sess'[s].is_open
    /\ (last'.op = "start_stream" /\ last'.s = s) =>
          IF last'.fault = "none"
          THEN last'.res = "Ok" /\ sess'[s].is_open
          ELSE last'.res # "Ok" /\ sess'[s].is_open = sess[s].is_open
    /\ (last'.op = "stop_stream" /\ last'.s = s) => ~sess'[s].is_open
    /\ (/\ ~(last'.op \in {"new", "start_stream", "stop_stream"} /\ last'.s = s)
        /\ sess[s].live /\ sess'[s].live) =>
          sess'[s].is_open = sess[s].is_open

C8_StreamingFlag == [][\A s \in Sessions : C8_StepOf(s)]_vars

\* start_stream() succeeded on one session while another, opened too, is
\* not streaming
C8_Witness ==
    /\ last.op = "start_stream"
    /\ last.res = "Ok"
    /\ sess[last.s].is_open
    /\ \E o \in LiveSet : ~sess[o].is_open

\* C9 (Spec): raw_bytes() returns Ok only on a session whose is_open is true.
C9_ReadOnlyWhileStreaming ==
    (last.op = "raw_bytes" /\ last.res = "Ok") => sess[last.s].is_open

\* C10 (SpecRead): once the buffer is locked, a null start pointer or a valid
\* length of 0 makes raw_bytes() return ReadFrameError; an Ok carries as
\* many bytes as the valid length, more than 0, from a pointer not null.
C10_NoEmptyFrame ==
    last.op = "raw_bytes" =>
        /\ (/\ Called(last, "Lock") /\ last.fault # "Lock"
            /\ (last.ptr_null \/ last.aux = 0)) =>
              last.res = "ReadFrameError" /\ last.val = 0
        /\ last.res = "Ok" =>
              last.val = last.aux /\ last.val > 0 /\ ~last.ptr_null

\* raw_bytes() locked a buffer of valid length 0 behind a pointer not null
C10_Witness ==
    /\ last.op = "raw_bytes"
    /\ Called(last, "Lock")
    /\ ~last.ptr_null
    /\ last.aux = 0
    /\ last.fault = "Buffer Size is 0"
    /\ last.res = "ReadFrameError"

\* how many of the platform calls of the call c are fn
CallCount(c, fn) == Cardinality({k \in 1..Len(c.calls) : c.calls[k] = fn})

\* The Lock calls of the call c that were not the failing one
LocksTaken(c) ==
    IF c.fault = "Lock" THEN CallCount(c, "Lock") - 1 ELSE CallCount(c, "Lock")

\* C11 (SpecRead): when raw_bytes() returns, with Ok or with an error after
\* the lock, the sample buffer was unlocked as many times as it was locked.
C11_LocksReleased ==
    last.op = "raw_bytes" => LocksTaken(last) = CallCount(last, "Unlock")

\* C12 (SpecPoll): raw_bytes() calls ReadSample again only after an answer
\* without a sample; an error answer ends the call with ReadFrameError and
\* no further call, a sample ends the polling; at return the ReadSample
\* calls are the answers without a sample, plus one.
C12_Step ==
    /\ (/\ last.op = "raw_bytes" /\ last.res = "pending"
        /\ CallCount(last', "ReadSample") > CallCount(last, "ReadSample")) =>
          /\ last.calls = <<>> \/ last.fault = "none_yet"
          /\ CallCount(last', "ReadSample") = CallCount(last, "ReadSample") + 1
    /\ (last.res = "pending" /\ last'.fault = "ReadSample") =>
          /\ last'.res = "ReadFrameError"
          /\ last'.calls[Len(last'.calls)] = "ReadSample"
          /\ pc'[last.s] = "idle"
    /\ (last.res = "pending" /\ last'.fault = "sample") => pc'[last.s] = "r_rest"
    /\ (last.res = "pending" /\ last'.res # "pending") =>
          CallCount(last', "ReadSample") = tmp'[last.s] + 1

C12_PollOnlyOnNoSample == [][C12_Step]_vars

\* raw_bytes() returned a frame after MaxPolls answers without a sample
C12_Witness ==
    /\ last.op = "raw_bytes"
    /\ last.res = "Ok"
    /\ tmp[last.s] = MaxPolls
    /\ CallCount(last, "ReadSample") = MaxPolls + 1

\* C13 (SpecPollFair): a raw_bytes() that polls stops polling only on a
\* sample or an error of the reader, whether is_open is true or false; an
\* answer without a sample leaves it polling; and with the reader sooner or
\* later answering with a sample or an error, the call returns.
C13_Step ==
    \A s \in Sessions :
        /\ (pc[s] = "r_poll" /\ pc'[s] # "r_poll") =>
              /\ last'.fault \in {"sample", "ReadSample"}
              /\ CallCount(last', "ReadSample") = CallCount(last, "ReadSample") + 1
        /\ (pc[s] = "r_poll" /\ tmp'[s] > tmp[s]) => pc'[s] = "r_poll"
        /\ (pc[s] = "r_poll" /\ pc'[s] = "idle") => last'.res = "ReadFrameError"

C13_ReadReturns ==
    /\ [][C13_Step]_vars
    /\ \A s \in Sessions : (pc[s] = "r_poll") ~> (pc[s] = "idle")

\* raw_bytes() on a session whose is_open is false got MaxPolls answers
\* without a sample and is polling
C13_Witness ==
    \E s \in Sessions :
        /\ pc[s] = "r_poll"
        /\ tmp[s] = MaxPolls
        /\ ~sess[s].is_open
        /\ last.res = "pending"

\* C14 (SpecFormat): in compatible_format_list() every pass of the loop
\* that goes round leaves the index one higher, no index is fetched twice,
\* and the call returns Ok at the index where the platform has no more types.
C14_Step ==
    \A s \in Sessions :
        pc[s] = "cf_loop" =>
            /\ pc'[s] = "cf_loop" =>
                  /\ loc'[s].index = loc[s].index + 1
                  /\ \A j, k \in 1..Len(loc'[s].fetched) :
                        loc'[s].fetched[j] = loc'[s].fetched[k] => j = k
            /\ (pc'[s] = "idle" /\ last'.res = "Ok") =>
                  loc[s].index = Len(loc[s].natives)

C14_IndexIncreases == [][C14_Step]_vars

\* the subtypes compatible_format_list() has a pixel encoding for
Recognized(mt) == mt.subtype \in {"MJPEG", "YUY2", "GRAY"}

\* what the passes of the loop add for the types of `natives`, in order
RECURSIVE EntriesOf(_)
EntriesOf(natives) ==
    IF natives = <<>> THEN <<>>
    ELSE format_list_pass(Head(natives), 0, <<>>, "none").list
         \o EntriesOf(Tail(natives))

\* C15 (SpecFormatFair): a compatible_format_list() on a device with a
\* native type of an unrecognized subtype returns, and a returned list is
\* the list of the recognized types alone, with encodings MJPEG, YUYV or
\* GRAY only.
C15_UnrecognizedSkipped ==
    /\ [][\A s \in Sessions :
            (pc[s] = "cf_loop" /\ pc'[s] = "idle" /\ last'.res = "Ok") =>
                /\ loc[s].list = EntriesOf(SelectSeq(loc[s].natives, Recognized))
                /\ \A k \in 1..Len(loc[s].list) :
                      loc[s].list[k].format \in {"MJPEG", "YUYV", "GRAY"}]_vars
    /\ \A s \in Sessions :
          (/\ pc[s] = "cf_loop"
           /\ \E k \in 1..Len(loc[s].natives) : ~Recognized(loc[s].natives[k]))
          ~> (pc[s] = "idle")

\* the entries the pass from the unprimed to the primed state added
Added(s) == SubSeq(loc'[s].list, Len(loc[s].list) + 1, Len(loc'[s].list))

\* the native media type the pass from the unprimed state handles
Fetched(s) == loc[s].natives[loc[s].index + 1]

\* a pass of compatible_format_list() on session s handles a native type
Passing(s) == pc[s] = "cf_loop" /\ loc[s].index < Len(loc[s].natives)

\* the frame rate of a packed fraction: the numerator over a denominator of
\* 1, else 0
RateOf(f) == IF f.lo = 1 THEN f.hi ELSE 0

\* C16 (SpecFormat): the entries compatible_format_list() adds for one
\* native type never have the same frame rate twice in a row.
C16_Step ==
    \A s \in Sessions :
        (Passing(s) /\ pc'[s] = "cf_loop") =>
            \A k \in 1..(Len(Added(s)) - 1) : Added(s)[k] # Added(s)[k + 1]

C16_NoAdjacentDuplicates == [][C16_Step]_vars

\* C17 (SpecFormat): for one native type compatible_format_list() adds at
\* most three entries, taken in order from (min, nominal, max), each with the
\* size and the encoding of the type and none with frame rate 0.
C17_Step ==
    \A s \in Sessions :
        (Passing(s) /\ pc'[s] = "cf_loop") =>
            LET mt == Fetched(s)
                rates == <<RateOf(mt.rate_min), RateOf(mt.rate), RateOf(mt.rate_max)>>
            IN  /\ Len(Added(s)) <= 3
                /\ \E keep \in SUBSET (1..3) :
                      LET kept == SelectSeq(<<1, 2, 3>>, LAMBDA i : i \in keep)
                      IN  /\ Len(Added(s)) = Len(kept)
                          /\ \A k \in 1..Len(kept) :
                                Added(s)[k].frame_rate = rates[kept[k]]
                /\ \A k \in 1..Len(Added(s)) :
                      /\ Added(s)[k].frame_rate # 0
                      /\ Added(s)[k].width = mt.frame_size.hi
                      /\ Added(s)[k].height = mt.frame_size.lo
                      /\ Added(s)[k].format \in {"MJPEG", "YUYV", "GRAY"}
                      /\ Added(s)[k].format = frame_fmt_of(mt.subtype)

C17_UpToThreeInOrder == [][C17_Step]_vars

\* compatible_format_list() has added the three entries of a YUY2 type with
\* rates 15, 30 and 60
C17_Witness ==
    \E s \in Sessions :
        /\ pc[s] = "cf_loop"
        /\ loc[s].index = 1
        /\ loc[s].natives[1].subtype = "YUY2"
        /\ Len(loc[s].list) = 3
        /\ loc[s].list[1].frame_rate = 15
        /\ loc[s].list[2].frame_rate = 30
        /\ loc[s].list[3].frame_rate = 60
        /\ loc[s].list[1].format = "YUYV"

\* format_refreshed() on session s has just returned Ok
Refreshed(s) ==
    /\ last'.op = "format_refreshed" /\ last'.s = s /\ last'.res = "Ok"
    /\ sess[s].live

\* C18 (SpecNegotiate): where a packed frame-rate fraction is decoded into a
\* frame_rate, a denominator other than 1 gives 0 and a denominator of 1
\* gives the numerator: in the entries compatible_format_list() adds for a
\* native type whose three rates are one fraction, and in the format
\* format_refreshed() stores.
C18_Step ==
    \A s \in Sessions :
        /\ (Passing(s) /\ pc'[s] = "cf_loop") =>
              \A k \in 1..Len(Added(s)) :
                  Added(s)[k].frame_rate = RateOf(Fetched(s).rate)
        /\ Refreshed(s) =>
              sess'[s].device_format.frame_rate = RateOf(sess[s].active.rate)

C18_FractionDecoded == [][C18_Step]_vars

\* set_format() on session s has just given its media type to
\* SetCurrentMediaType: no call of SetFormatSteps failed
MediaTypeSet(s) ==
    /\ last'.op = "set_format" /\ last'.s = s
    /\ CallCount(last', "SetCurrentMediaType") = 1
    /\ last'.fault \notin {SetFormatSteps[k].name : k \in 1..Len(SetFormatSteps)}

\* C19 (SpecNegotiate): the media type set_format() gives to the reader has
\* the requested frame rate r packed as numerator r (high 32 bits) over
\* denominator 1 (low 32 bits), the same value in MF_MT_FRAME_RATE,
\* MF_MT_FRAME_RATE_RANGE_MIN and MF_MT_FRAME_RATE_RANGE_MAX.
C19_Step ==
    \A s \in Sessions :
        MediaTypeSet(s) =>
            /\ sess'[s].media_type.rate = U64(last'.val, 1)
            /\ sess'[s].media_type.rate_min = sess'[s].media_type.rate
            /\ sess'[s].media_type.rate_max = sess'[s].media_type.rate

C19_RatePacked == [][C19_Step]_vars

\* C20 (SpecNegotiate): after set_format(f) returned Ok, format() gives the
\* format the device reports as active: the size and the encoding of the
\* reader's current media type, and as frame_rate its numerator over a
\* denominator of 1 (a device that snapped a requested 30 to 29/1 gives 29).
C20_Step ==
    \A s \in Sessions :
        (last'.op = "set_format" /\ last'.s = s /\ last'.res = "Ok") =>
            LET active == sess'[s].active
                format == sess'[s].device_format
            IN  /\ format.width = active.frame_size.hi
                /\ format.height = active.frame_size.lo
                /\ format.format = frame_fmt_of(active.subtype)
                /\ format.frame_rate = RateOf(active.rate)

C20_FormatIsActive == [][C20_Step]_vars

\* C21 (SpecOpen): when new(CameraIndex::String(s)) succeeds, the symbolic
\* link of the device the session holds is s, whatever device lists the
\* platform returned to the enumerations made during the call.
C21_OpensRequestedLocator ==
    (last.op = "new" /\ last.res = "Ok" /\ last.asked.kind = "String") =>
        last.val = last.asked.v

\* the failures of new() past the enumeration: the index is beyond the
\* device list, no descriptor has the symbolic link, the device is not
\* activated, the reader's attributes or the reader are not made
OpenFailures ==
    {"No device", "Not Found", "ActivateObject", "MFCreateAttributes_reader",
     "AttributesNone_reader", "SetUINT32", "MFCreateSourceReaderFromMediaSource"}

\* C22 (SpecOpen): a new() that fails with one of OpenFailures returns
\* OpenDeviceError carrying the identifier it was called with.
C22_OpenErrorCarriesIdentifier ==
    (last.op = "new" /\ last.res # "Ok" /\ last.fault \in OpenFailures) =>
        /\ last.res = "OpenDeviceError"
        /\ last.ident = last.asked

\* query_media_foundation_descriptors() has returned and the platform
\* enumerated its devices
Listed ==
    /\ last.op = "query_media_foundation_descriptors"
    /\ last.fault \in {"none"} \cup StepNames(DescriptorSteps)

\* a GetAllocatedString of the friendly name or of the symbolic link failed
\* or gave a null string
ReadFailed == last.fault \in {"FRIENDLY_NAME", "SYMBOLIC_LINK",
                              "FRIENDLY_NAME_null", "SYMBOLIC_LINK_null"}

NamesAttribute ==
    IF last.fault \in {"FRIENDLY_NAME", "FRIENDLY_NAME_null"}
    THEN last.property = "MF_DEVSOURCE_ATTRIBUTE_FRIENDLY_NAME"
    ELSE last.property = "MF_DEVSOURCE_ATTRIBUTE_SOURCE_TYPE_VIDCAP_SYMBOLIC_LINK"

\* C23 as stated (SpecOpen): query_media_foundation_descriptors() returns
\* GetPropertyError naming the attribute and no descriptor when a read of
\* the name or of the symbolic link of a handle fails or gives a null
\* string, and otherwise one descriptor per handle.
C23_AllOrNothingElseAll ==
    Listed =>
        IF ReadFailed
        THEN last.res = "GetPropertyError" /\ NamesAttribute /\ last.infos = <<>>
        ELSE last.res = "Ok" /\ Len(last.infos) = Len(last.handles)

\* C23 (SpecOpen): query_media_foundation_descriptors() returns
\* GetPropertyError naming the attribute and no descriptor when a read of
\* the name or of the symbolic link of a handle fails or gives a null
\* string, StructureError and no descriptor when a string read is not
\* valid UTF-16, and otherwise one descriptor per handle.
C23_AllOrNothing ==
    Listed =>
        IF ReadFailed
        THEN last.res = "GetPropertyError" /\ NamesAttribute /\ last.infos = <<>>
        ELSE IF last.fault \in {"Name_to_string", "Symlink_to_string"}
        THEN last.res = "StructureError" /\ last.infos = <<>>
        ELSE last.res = "Ok" /\ Len(last.infos) = Len(last.handles)

\* the symbolic link of the second of two handles came back null: the
\* descriptor of the first is not returned
C23_Witness ==
    /\ Listed
    /\ last.fault = "SYMBOLIC_LINK_null"
    /\ Len(last.handles) = 2
    /\ CallCount(last, "GetAllocatedString") = 4
    /\ last.res = "GetPropertyError"
    /\ last.infos = <<>>

\* C24 (SpecOpen): the descriptors query_media_foundation_descriptors()
\* returns are in the order of the platform's device list: the k-th has
\* index k - 1 (counted from 0) and the name and the symbolic link of the
\* k-th handle.
C24_DescriptorsInOrder ==
    (Listed /\ last.res = "Ok") =>
        /\ Len(last.infos) = Len(last.handles)
        /\ \A k \in 1..Len(last.infos) :
              /\ last.infos[k].index = k - 1
              /\ last.infos[k].human_name = last.handles[k]
              /\ last.infos[k].misc = last.handles[k]

\* two devices, enumerated in the order 2, 1: the descriptors have indices
\* 0 and 1 and the symbolic links of devices 2 and 1
C24_Witness ==
    /\ Listed /\ last.res = "Ok"
    /\ last.handles = <<2, 1>>
    /\ Len(last.infos) = 2
    /\ last.infos[1].index = 0 /\ last.infos[1].misc = 2
    /\ last.infos[2].index = 1 /\ last.infos[2].misc = 1

\* the platform calls of the enumeration proper
EnumCalls == {"MFCreateAttributes", "SetGUID", "MFEnumDeviceSources",
              "GetAllocatedString"}

\* C25 (SpecOpen): query_media_foundation_descriptors() called while
\* INITIALIZED is false calls CoInitializeEx and MFStartup before any call
\* of the enumeration; INITIALIZED is true when it returns Ok; when
\* initialize_mf() fails it returns InitializeError and makes no call of the
\* enumeration; and it leaves CAMERA_REFCNT as it was.
C25_Step ==
    (last'.op = "query_media_foundation_descriptors") =>
        /\ CAMERA_REFCNT' = CAMERA_REFCNT
        /\ (last'.res = "Ok") => INITIALIZED'
        /\ (last'.fault \in {"CoInitializeEx", "MFStartup"}) =>
              /\ last'.res = "InitializeError"
              /\ ~INITIALIZED'
              /\ \A k \in 1..Len(last'.calls) : last'.calls[k] \notin EnumCalls
        /\ (~INITIALIZED /\ \E k \in 1..Len(last'.calls) : last'.calls[k] \in EnumCalls) =>
              /\ Len(last'.calls) > 2
              /\ last'.calls[1] = "CoInitializeEx"
              /\ last'.calls[2] = "MFStartup"
              /\ INITIALIZED'
        /\ INITIALIZED =>
              \A k \in 1..Len(last'.calls) :
                  last'.calls[k] \notin {"CoInitializeEx", "MFStartup"}

C25_LazyInitialize == [][C25_Step]_vars

\* the first query_media_foundation_descriptors() of the process has
\* started the platform and returned two descriptors
C25_Witness ==
    /\ Listed /\ last.res = "Ok"
    /\ Len(last.calls) > 2 /\ last.calls[1] = "CoInitializeEx"
    /\ last.calls[2] = "MFStartup"
    /\ INITIALIZED
    /\ CAMERA_REFCNT = 0
    /\ Len(last.infos) = 2

\* set_control() on session s has just returned, called with a value that
\* is neither Integer nor Boolean
SetWithOtherValue(s) ==
    /\ last'.op = "set_control" /\ last'.s = s
    /\ last'.value.tag \notin {"Integer", "Boolean"}

\* no native Set of either interface is among the calls of c
NoSetCall(c) ==
    /\ ~Called(c, "IAMVideoProcAmp::Set")
    /\ ~Called(c, "IAMCameraControl::Set")
    /\ c.set = NoCall.set

\* C26 as stated (SpecControl): set_control() with a value that is neither
\* Integer nor Boolean returns StructureError, calls no native Set and
\* leaves the device's controls as they were.
C26_StepAsStated ==
    \A s \in Sessions :
        SetWithOtherValue(s) =>
            /\ last'.res = "StructureError"
            /\ NoSetCall(last')
            /\ sess'[s].controls = sess[s].controls

C26_OtherValueStructureError == [][C26_StepAsStated]_vars

\* C26 (SpecControl): set_control() with a value that is neither Integer
\* nor Boolean returns an error, calls no native Set and leaves the device's
\* controls as they were; the error is the StructureError of the value
\* when the control resolves and no platform call before the check fails.
C26_Step ==
    \A s \in Sessions :
        SetWithOtherValue(s) =>
            /\ last'.res # "Ok"
            /\ NoSetCall(last')
            /\ sess'[s].controls = sess[s].controls
            /\ (/\ last'.fault \notin (ControlFaults \ {"none"})
                /\ kcc_to_i32(last'.control) # None) =>
                  /\ last'.res = "StructureError"
                  /\ last'.fault = "invalid value type"

C26_OtherValueRejected == [][C26_Step]_vars

\* set_control(Exposure, Float) has read the control, reached the check of
\* the value and returned its StructureError
C26_Witness ==
    /\ last.op = "set_control"
    /\ last.control = Named("Exposure")
    /\ last.value.tag = "Float"
    /\ last.res = "StructureError"
    /\ last.fault = "invalid value type"
    /\ Called(last, "IAMCameraControl::Get")
    /\ CallCount(last, "GetServiceForStream") = 2
    /\ NoSetCall(last)

\* set_control() on session s has just made its native Set
SetMade(s) ==
    /\ last'.op = "set_control" /\ last'.s = s
    /\ last'.set # NoCall.set

\* the mode control() reports for a device flag
ModeOf(flag) ==
    IF flag = "CameraControl_Flags_Manual" THEN "Manual" ELSE "Automatic"

\* C27 (SpecControl): the flag set_control() passes to the native Set is
\* Auto when its read of the control reported Automatic and Manual when it
\* reported Manual; the Set goes to the interface the read used; and after
\* a set_control() that returned Ok the device's mode for the control is the
\* one it had before.
C27_Step ==
    \A s \in Sessions :
        SetMade(s) =>
            LET id == kcc_to_i32(last'.control)
                before == sess[s].controls[Cell(read_interface(id), id.id)]
                after == sess'[s].controls[Cell(read_interface(id), id.id)]
            IN  /\ last'.mode = ModeOf(before.flag)
                /\ last'.mode = "Automatic" =>
                      last'.set.flag = "CameraControl_Flags_Auto"
                /\ last'.mode = "Manual" =>
                      last'.set.flag = "CameraControl_Flags_Manual"
                /\ last'.set.interface = read_interface(id)
                /\ last'.set.id = id.id
                /\ IF read_interface(id) = "IAMVideoProcAmp"
                   THEN /\ Called(last', "IAMVideoProcAmp::Get")
                        /\ Called(last', "IAMVideoProcAmp::Set")
                        /\ ~Called(last', "IAMCameraControl::Set")
                   ELSE /\ Called(last', "IAMCameraControl::Get")
                        /\ Called(last', "IAMCameraControl::Set")
                        /\ ~Called(last', "IAMVideoProcAmp::Set")
                /\ last'.res = "Ok" =>
                      /\ ModeOf(after.flag) = ModeOf(before.flag)
                      /\ after.value = last'.set.value

C27_ModePreserved == [][C27_Step]_vars

\* set_control(Exposure, Integer(1)) on a control in manual mode has
\* returned Ok: the Set carried Manual and the control is still manual
C27_Witness ==
    /\ last.op = "set_control" /\ last.res = "Ok"
    /\ last.control = Named("Exposure")
    /\ last.mode = "Manual"
    /\ last.set.flag = "CameraControl_Flags_Manual"
    /\ last.set.interface = "IAMCameraControl"
    /\ \E s \in Sessions :
          /\ last.s = s
          /\ sess[s].controls[Cell("IAMCameraControl", "CameraControl_Exposure")]
                = [value |-> 1, flag |-> "CameraControl_Flags_Manual"]

\* a native Get, GetRange or Set of either interface is among the calls of c
NativeControlCall(c) ==
    \E fn \in {"IAMVideoProcAmp::GetRange", "IAMVideoProcAmp::Get",
               "IAMVideoProcAmp::Set", "IAMCameraControl::GetRange",
               "IAMCameraControl::Get", "IAMCameraControl::Set"} : Called(c, fn)

\* C28 (SpecControl): kcc_to_i32 gives every named control one of the four
\* kinds of control id and gives Other(o) an id exactly when o is
\* VideoProcAmp_ColorEnable; control() and set_control() called with a
\* control that has no id return an error and make no native Get, GetRange
\* or Set, and leave the device's controls as they were.
C28_Resolve ==
    /\ \A kcc \in KnownCameraControls :
          /\ kcc.name # "Other" =>
                kcc_to_i32(kcc).kind \in {"ProcAmpBoolean", "ProcAmpRange",
                                          "CCValue", "CCRange"}
          /\ kcc.name = "Other" =>
                ((kcc_to_i32(kcc) # None) <=> (kcc.o = "VideoProcAmp_ColorEnable"))
    /\ (/\ last.op \in {"control", "set_control"}
        /\ kcc_to_i32(last.control) = None) =>
          /\ last.res # "Ok"
          /\ ~NativeControlCall(last)
          /\ last.set = NoCall.set

\* set_control(Other(o), Integer(1)) with o an id that is not
\* VideoProcAmp_ColorEnable has returned SetPropertyError
C28_Witness ==
    /\ last.op = "set_control"
    /\ last.control = Other("unknown")
    /\ last.value.tag = "Integer"
    /\ last.res = "SetPropertyError"
    /\ last.fault = "Does not exist"
    /\ ~NativeControlCall(last)

\* C29 (SpecRead): stop_stream() sets is_open to false and nothing else: it
\* leaves CAMERA_REFCNT, INITIALIZED, the platform, the session's format and
\* reader and every other session as they were, and calls no platform
\* function; the session stays live.
C29_Step ==
    \A s \in Sessions :
        (last'.op = "stop_stream" /\ last'.s = s) =>
            /\ sess' = [sess EXCEPT ![s].is_open = FALSE]
            /\ sess'[s].live
            /\ CAMERA_REFCNT' = CAMERA_REFCNT
            /\ INITIALIZED' = INITIALIZED
            /\ plat' = plat
            /\ last'.calls = <<>>
            /\ last'.res = "Ok"

C29_StopOnlyClearsFlag == [][C29_Step]_vars

\* stop_stream() has returned on a session that was streaming: the flag is
\* false, the reader's stream is still selected, the session is still
\* counted and the platform still up
C29_Witness ==
    \E s \in Sessions :
        /\ last.op = "stop_stream" /\ last.s = s
        /\ sess[s].live /\ ~sess[s].is_open /\ sess[s].selected
        /\ CAMERA_REFCNT = 1
        /\ INITIALIZED

\* C30 (SpecConc): the drop() of a session does not shut the platform down
\* (MFShutdown, INITIALIZED.store(false)) while another session is live, so
\* INITIALIZED stays true while a session is live whose drop() has not
\* started.
C30_Step ==
    \A t \in Threads :
        (pc[t] \in {"d_shutdown", "d_clear"} /\ (plat' # plat \/ INITIALIZED' # INITIALIZED)) =>
            \A s \in Sessions \ {t} : ~sess[s].live

C30_NoShutdownWhileLive == [][C30_Step]_vars

\* the i64 with high word hi and low word lo (read as an i32) is the i32 v
IsI32(hi, lo, v) == v = lo /\ hi = (IF lo >= 0 THEN 0 ELSE -1)

\* C35 (SpecControl): the value set_control() hands to the native Set is i
\* for Integer(i), whatever the 64-bit i, and 1 or 0 for Boolean(true) or
\* Boolean(false).
C35_Step ==
    \A s \in Sessions :
        SetMade(s) =>
            /\ last'.value.tag = "Integer" =>
                  IsI32(last'.value.hi, last'.value.lo, last'.set.value)
            /\ last'.value.tag = "Boolean" =>
                  last'.set.value = (IF last'.value.lo # 0 THEN 1 ELSE 0)

C35_SetValueExact == [][C35_Step]_vars

\* C32 (SpecNegotiate): a set_format() that returns an error, at whichever
\* step, leaves what format() returns as it was before the call.
C32_Step ==
    \A s \in Sessions :
        (last'.op = "set_format" /\ last'.s = s /\ last'.res # "Ok") =>
            sess'[s].device_format = sess[s].device_format

C32_FailedSetKeepsFormat == [][C32_Step]_vars

\* C31 (SpecConc): threads that enter initialize_mf() together while the
\* flag is false start the platform at most once (successful MFStartup calls
\* never exceed successful MFShutdown calls by more than one), and when no
\* call is in progress INITIALIZED is true exactly when there have been more
\* successful startups than successful shutdowns.
C31_StartupOnce ==
    /\ plat.mf <= 1
    /\ Quiescent => (INITIALIZED <=> plat.mf > 0)

\* C33 (Spec): a new() that fails, by index or by locator and at whichever
\* step, leaves CAMERA_REFCNT and every session slot as they were; a new()
\* that succeeds raises CAMERA_REFCNT by exactly one and creates exactly one
\* session, also when it was called with a locator and so enumerated the
\* devices twice and went through the nested new(Index(index)).
C33_Step ==
    last'.op = "new" =>
        IF last'.res = "Ok"
        THEN /\ CAMERA_REFCNT' = CAMERA_REFCNT + 1
             /\ \E s \in Sessions \ LiveSet :
                   {o \in Sessions : sess'[o].live} = LiveSet \cup {s}
        ELSE /\ CAMERA_REFCNT' = CAMERA_REFCNT
             /\ sess' = sess

C33_OpenCountsOnce == [][C33_Step]_vars

\* an open by locator failed at the last fallible step of the nested
\* new(Index(index)), after both enumerations, while one session was live:
\* the count is still one and no second session exists
C33_Witness ==
    /\ last.op = "new"
    /\ last.asked.kind = "String"
    /\ last.fault = "MFCreateSourceReaderFromMediaSource"
    /\ CallCount(last, "MFEnumDeviceSources") = 2
    /\ CAMERA_REFCNT = 1
    /\ Cardinality(LiveSet) = 1

\* C34 (SpecShare): start_stream(), stop_stream(), set_format() and
\* format_refreshed() called on one session leave the streaming flag and the
\* cached format of every other live session as they were, and leave
\* INITIALIZED and CAMERA_REFCNT alone.
C34_Step ==
    \A s \in Sessions :
        (/\ last'.op \in {"start_stream", "stop_stream", "set_format",
                          "format_refreshed"}
         /\ last'.s = s) =>
            /\ \A o \in LiveSet \ {s} :
                  /\ sess'[o].live
                  /\ sess'[o].is_open = sess[o].is_open
                  /\ sess'[o].device_format = sess[o].device_format
            /\ INITIALIZED' = INITIALIZED
            /\ CAMERA_REFCNT' = CAMERA_REFCNT

C34_SessionsIndependent == [][C34_Step]_vars

\* set_format() has just returned Ok on one session while another live
\* session is streaming with the default format still cached
C34_Witness ==
    \E s \in LiveSet, o \in LiveSet :
        /\ o # s
        /\ last.op = "set_format" /\ last.s = s /\ last.res = "Ok"
        /\ sess[s].device_format # DefaultFormat
        /\ ~sess[s].is_open
        /\ sess[o].is_open
        /\ sess[o].device_format = DefaultFormat

====
